---- MODULE Spec2Model ----
(***************************************************************************)
(* A model of the pl runtime's garbage collector (src/pl_gc.c): the four   *)
(* bookkeeping tables, the objects on the heap, the root set and the       *)
(* mark-and-sweep cycle, driven by a mutator that only touches objects it  *)
(* is entitled to hold.                                                    *)
(***************************************************************************)
EXTENDS Integers, Sequences, FiniteSets, TLC

\* ------------------------------------------------------------------------
\* Bounds of the model
\* ------------------------------------------------------------------------
MaxAddr == 3
MaxLen == 1
MaxFail == 1
MaxObjLen == 3
MaxDepth == 3
MaxVecLen == 2
MaxVecAddr == 4
MaxAttrs == 2
MaxAttrAddr == 7
MaxBtVaried == 2
MaxVars == 2
MaxVarAddr == 7

\* ------------------------------------------------------------------------
\* Program constants
\* ------------------------------------------------------------------------
PL_ERROR_NONE == 0
PL_ERROR_INDEX_OUT_OF_BOUND == 1
PL_ERROR_ALLOC_FAIL == 2
PL_ERROR_UNDEFINED_CLASS == 3
PL_ERROR_INVALID_CAPACITY == 4
PL_ERROR_INVALID_NULL_POINTER == 5
PL_ERROR_INVALID_CLASS == 6
PL_ERROR_INVALID_LENGTH == 7
PL_ERROR_INVALID_NA == 8
PL_ERROR_INVALID_FRAME == 9
PL_ERROR_VARIABLE_NOT_FOUND == 10
PL_ERROR_INVALID_VARIABLE_NAME == 11

\* check_incompatible_length raises it; pl_error.h gives it no value, so it
\* has one that no code of pl_error.h has
PL_ERROR_INCOMPATIBLE_LENGTH == 12

\* get_attribute raises it; no header gives it a value either
PL_ERROR_ATTRIBUTE_NOT_FOUND == 13

\* push raises it; no header gives it a value
PL_ERROR_STACKOVERFLOW == 14
PL_BT_MAX_ALLOWED_FRAME_NUM == 256
PL_BT_EXTRA_FRAME_NUM == 8

PL_NUM_CLASS == 5
PL_CLASS_CHAR == 0
PL_CLASS_INT == 1
PL_CLASS_LONG == 2
PL_CLASS_DOUBLE == 3
PL_CLASS_LIST == 4

\* 2 << (sizeof(int) * 7) with a 4-byte int
PL_OBJECT_MAX_CAPACITY == 536870912

\* the capacity init_table gives a fresh table
TABLE_INIT_CAPACITY == 8

\* 2 << (sizeof(int) * 4) with a 4-byte int
threshold == 131072

NULL == 0
EXIT_FAILURE == 1

\* limits.h with an 8-bit signed char
CHAR_MAX == 127
CHAR_MIN == 0 - 128
Addr == 1..MaxAddr

\* the <<class, capacity>> pairs the mutator passes to new_object: the two
\* ends of the range of defined classes and of the range of valid capacities,
\* and the first value outside each end
NewObjectInputs ==
    {<<PL_CLASS_CHAR, 1>>, <<PL_CLASS_LIST, 1>>, <<PL_CLASS_LIST, PL_OBJECT_MAX_CAPACITY>>,
     <<-1, 1>>, <<PL_NUM_CLASS, 1>>, <<-1, 0>>,
     <<PL_CLASS_LIST, 0>>, <<PL_CLASS_CHAR, PL_OBJECT_MAX_CAPACITY + 1>>}
ValidClasses == {PL_CLASS_CHAR, PL_CLASS_LIST}

\* ------------------------------------------------------------------------
\* State
\* ------------------------------------------------------------------------
VARIABLES
    heap,                        \* address -> pl_object_struct (blank when not allocated)
    live,                        \* addresses malloc'ed and not yet freed
    held,                        \* objects the mutator may still refer to under the GC contract
    global_table,                \* the allocation table
    global_directly_reachable,   \* the root set
    global_reachable,            \* the closure, sorted
    global_reachable_unordered,  \* the closure in insertion order: the BFS queue
    err,                         \* error code the caller's catch saw for the last call
    fault,                       \* "none", or the undefined operation the process performed
    op,                          \* the last call that returned to the mutator
    gc_pc,                       \* position inside garbage_collect
    head_index,                  \* update_reachable's head_index
    gc_i,                        \* update_reachable's inner index i
    failures,                    \* allocation failures the environment has injected so far
    pl_error_exception_frames,   \* [frame, error]: the active exception target and the stored code
    global_error_message,        \* the message buffer: <<>> or <<code, site, text>>
    stack,                       \* the try bodies, handlers and calls control is inside of
    process,                     \* running, or exited with a status and what was printed
    global_bt                    \* the backtrace stack: frame_count and the frames below it

tables == <<global_table, global_directly_reachable, global_reachable, global_reachable_unordered>>
gcpos == <<gc_pc, head_index, gc_i>>
gcvars == <<heap, live, held, global_table, global_directly_reachable, global_reachable,
            global_reachable_unordered, err, fault, op, gc_pc, head_index, gc_i, failures>>
errvars == <<pl_error_exception_frames, global_error_message, stack, process, global_bt>>
vars == <<gcvars, errvars>>

\* pl_object_struct of an address that holds no object
Blank == [class |-> 0, capacity |-> 0, data |-> <<>>, attribute |-> NULL]

\* a table pointer: NULL, a live table object, or a pointer to a freed table
TNull == [st |-> "null", capacity |-> 0, data |-> <<>>]
TFreed == [st |-> "freed", capacity |-> 0, data |-> <<>>]
TNew == [st |-> "live", capacity |-> TABLE_INIT_CAPACITY, data |-> <<>>]

\* the last call: its name and, for new_object, the object it returned
NoOp == [name |-> "none", ret |-> NULL]
Call(name, ret) == [name |-> name, ret |-> ret]

Range(s) == {s[k] : k \in 1..Len(s)}

\* ------------------------------------------------------------------------
\* Helpers translated from pl_gc.c
\* ------------------------------------------------------------------------

\* reserve_object's growth loop stopping as soon as the capacity covers the
\* request
RECURSIVE GrowLoop_stop_at_cover(_, _)
GrowLoop_stop_at_cover(final_capacity, capacity) ==
    IF final_capacity < capacity
    THEN GrowLoop_stop_at_cover(IF final_capacity < threshold
                                THEN final_capacity * 2
                                ELSE final_capacity + threshold, capacity)
    ELSE final_capacity

\* reserve_object's growth loop
RECURSIVE GrowLoop(_, _)
GrowLoop(final_capacity, capacity) ==
    IF final_capacity <= capacity
    THEN GrowLoop(IF final_capacity < threshold
                  THEN final_capacity * 2
                  ELSE final_capacity + threshold, capacity)
    ELSE final_capacity

\* the capacity reserve_object leaves an object of capacity cap with
reserve_capacity(cap, capacity) ==
    IF cap >= capacity THEN cap ELSE GrowLoop(1, capacity)

\* the midpoint both binary searches compute
Mid(head, tail) ==
    (head \div 2) + (tail \div 2) + (IF tail % 2 = 1 /\ head % 2 = 1 THEN 1 ELSE 0)

\* table_find_object: 0-based index of x in the sorted array d, or -1
RECURSIVE FindLoop(_, _, _, _)
FindLoop(d, x, head, tail) ==
    IF head <= tail
    THEN LET current == Mid(head, tail) IN
         IF d[current + 1] = x THEN current
         ELSE IF d[current + 1] < x THEN FindLoop(d, x, current + 1, tail)
         ELSE FindLoop(d, x, head, current - 1)
    ELSE -1

table_find_object(d, x) == FindLoop(d, x, 0, Len(d) - 1)

\* table_record_object's search giving up at once: the insertion point is
\* where the search starts
InsertLoop_no_search(d, x, head, tail) == head

\* table_record_object's search for the insertion point
RECURSIVE InsertLoop(_, _, _, _)
InsertLoop(d, x, head, tail) ==
    IF head <= tail
    THEN LET current == Mid(head, tail) IN
         IF d[current + 1] < x THEN InsertLoop(d, x, current + 1, tail)
         ELSE InsertLoop(d, x, head, current - 1)
    ELSE head

InsertAt(d, pos, x) == SubSeq(d, 1, pos) \o <<x>> \o SubSeq(d, pos + 1, Len(d))
RemoveAt(d, pos) == SubSeq(d, 1, pos) \o SubSeq(d, pos + 2, Len(d))

\* faulty variant of table_record_object: the new object goes to the end of
\* the array instead of its place in the address order
table_record_object_append(table, x, failing) ==
    IF x = NULL THEN [tab |-> table, err |-> PL_ERROR_INVALID_NULL_POINTER]
    ELSE IF table_find_object(table.data, x) # -1 THEN [tab |-> table, err |-> PL_ERROR_NONE]
    ELSE IF table.capacity < Len(table.data) + 1 /\ failing
         THEN [tab |-> table, err |-> PL_ERROR_ALLOC_FAIL]
    ELSE [tab |-> [table EXCEPT !.capacity = reserve_capacity(table.capacity,
                                                              Len(table.data) + 1),
                                !.data = Append(table.data, x)],
          err |-> PL_ERROR_NONE]

\* table_record_object on a live table; failing: the realloc of the table fails
table_record_object(table, x, failing) ==
    IF x = NULL THEN [tab |-> table, err |-> PL_ERROR_INVALID_NULL_POINTER]
    ELSE IF table_find_object(table.data, x) # -1 THEN [tab |-> table, err |-> PL_ERROR_NONE]
    ELSE IF table.capacity < Len(table.data) + 1 /\ failing
         THEN [tab |-> table, err |-> PL_ERROR_ALLOC_FAIL]
    ELSE LET cap == reserve_capacity(table.capacity, Len(table.data) + 1)
             pos == IF Len(table.data) = 0 THEN 0
                    ELSE InsertLoop(table.data, x, 0, Len(table.data) - 1)
         IN [tab |-> [table EXCEPT !.capacity = cap, !.data = InsertAt(table.data, pos, x)],
             err |-> PL_ERROR_NONE]

\* faulty variant of table_untrack_object: the length is decremented without
\* moving the following elements down, which drops the last element
table_untrack_object_last(table, x) ==
    IF x = NULL THEN [tab |-> table, err |-> PL_ERROR_INVALID_NULL_POINTER]
    ELSE LET index == table_find_object(table.data, x) IN
         IF index = -1 THEN [tab |-> table, err |-> PL_ERROR_NONE]
         ELSE [tab |-> [table EXCEPT !.data = RemoveAt(table.data, Len(table.data) - 1)],
               err |-> PL_ERROR_NONE]

\* table_untrack_object on a live table
table_untrack_object(table, x) ==
    IF x = NULL THEN [tab |-> table, err |-> PL_ERROR_INVALID_NULL_POINTER]
    ELSE LET index == table_find_object(table.data, x) IN
         IF index = -1 THEN [tab |-> table, err |-> PL_ERROR_NONE]
         ELSE [tab |-> [table EXCEPT !.data = RemoveAt(table.data, index)],
               err |-> PL_ERROR_NONE]

\* faulty variant of delete_object: nothing is freed
delete_object_leak(lv, x) == lv

\* delete_object: the set of allocated addresses once x is freed
delete_object(lv, x) == lv \ {x}

\* check_status
check_status == IF global_table.st # "null" THEN 1 ELSE 0

\* the mutator runs only between calls, and only while the process is sound
Idle == gc_pc = "idle" /\ fault = "none"

\* the Exception Core before any try or throw
NoException ==
    /\ pl_error_exception_frames = [frame |-> NULL, error |-> PL_ERROR_NONE]
    /\ global_error_message = <<>>
    /\ stack = <<>>
    /\ process = [status |-> "running", code |-> 0, out |-> <<>>]
    /\ global_bt = [frame_count |-> 0, frames |-> <<>>]

\* ------------------------------------------------------------------------
\* Initial state: nothing allocated, collector uninitialized
\* ------------------------------------------------------------------------
Init ==
    /\ heap = [a \in Addr |-> Blank]
    /\ live = {}
    /\ held = {}
    /\ global_table = TNull
    /\ global_directly_reachable = TNull
    /\ global_reachable = TNull
    /\ global_reachable_unordered = TNull
    /\ err = PL_ERROR_NONE
    /\ fault = "none"
    /\ op = NoOp
    /\ gc_pc = "idle"
    /\ head_index = 0
    /\ gc_i = 0
    /\ failures = 0
    /\ NoException

\* ------------------------------------------------------------------------
\* new_object(class, capacity); f names the allocation that fails:
\* 1 the table's malloc in init_table, 2 the object's malloc, 3 the table's realloc
\* ------------------------------------------------------------------------
NewObject(class, capacity, f) ==
    /\ Idle
    /\ UNCHANGED <<global_directly_reachable, global_reachable, global_reachable_unordered,
                   fault, gcpos>>
    /\ IF global_table.st = "null" /\ f = 1
       THEN /\ err' = PL_ERROR_ALLOC_FAIL
            /\ UNCHANGED <<heap, live, held, global_table>>
       ELSE LET t1 == IF global_table.st = "null" THEN TNew ELSE global_table IN
            IF ~(class >= 0 /\ class < PL_NUM_CLASS)
            THEN /\ err' = PL_ERROR_UNDEFINED_CLASS
                 /\ global_table' = t1
                 /\ UNCHANGED <<heap, live, held>>
            ELSE IF ~(capacity > 0 /\ capacity <= PL_OBJECT_MAX_CAPACITY)
            THEN /\ err' = PL_ERROR_INVALID_CAPACITY
                 /\ global_table' = t1
                 /\ UNCHANGED <<heap, live, held>>
            ELSE IF f = 2
            THEN /\ err' = PL_ERROR_ALLOC_FAIL
                 /\ global_table' = t1
                 /\ UNCHANGED <<heap, live, held>>
            ELSE \E object \in DOMAIN heap \ live :
                   LET rec == table_record_object(t1, object, f = 3) IN
                   IF rec.err # PL_ERROR_NONE
                   THEN /\ err' = rec.err
                        /\ global_table' = t1
                        /\ live' = delete_object(live \cup {object}, object)
                        /\ UNCHANGED <<heap, held>>
                   ELSE /\ err' = PL_ERROR_NONE
                        /\ global_table' = rec.tab
                        /\ heap' = [heap EXCEPT ![object] =
                                       [class |-> class, capacity |-> capacity,
                                        data |-> <<>>, attribute |-> NULL]]
                        /\ live' = live \cup {object}
                        /\ held' = held \cup {object}

\* ------------------------------------------------------------------------
\* directly_reachable(x); f names the allocation that fails:
\* 1 the table's malloc in init_table, 2 the table's realloc
\* ------------------------------------------------------------------------
DirectlyReachable(x, f) ==
    /\ Idle
    /\ UNCHANGED <<heap, live, held, global_table, global_reachable,
                   global_reachable_unordered, gcpos>>
    /\ IF global_directly_reachable.st = "null" /\ f = 1
       THEN /\ err' = PL_ERROR_ALLOC_FAIL
            /\ UNCHANGED <<global_directly_reachable, fault>>
       ELSE LET d1 == IF global_directly_reachable.st = "null" THEN TNew
                      ELSE global_directly_reachable IN
            IF x # NULL /\ d1.st = "freed"
            THEN /\ fault' = "use_after_free"
                 /\ UNCHANGED <<global_directly_reachable, err>>
            ELSE LET rec == table_record_object(d1, x, f = 2) IN
                 /\ global_directly_reachable' = rec.tab
                 /\ err' = rec.err
                 /\ UNCHANGED fault

\* ------------------------------------------------------------------------
\* directly_unreachable(x); f = 1: the table's malloc in init_table fails
\* ------------------------------------------------------------------------
DirectlyUnreachable(x, f) ==
    /\ Idle
    /\ UNCHANGED <<heap, live, held, global_table, global_reachable,
                   global_reachable_unordered, gcpos>>
    /\ IF global_directly_reachable.st = "null" /\ f = 1
       THEN /\ err' = PL_ERROR_ALLOC_FAIL
            /\ UNCHANGED <<global_directly_reachable, fault>>
       ELSE LET d1 == IF global_directly_reachable.st = "null" THEN TNew
                      ELSE global_directly_reachable IN
            IF x # NULL /\ d1.st = "freed"
            THEN /\ fault' = "use_after_free"
                 /\ UNCHANGED <<global_directly_reachable, err>>
            ELSE LET rec == table_untrack_object(d1, x) IN
                 /\ global_directly_reachable' = rec.tab
                 /\ err' = rec.err
                 /\ UNCHANGED fault

\* ------------------------------------------------------------------------
\* Object graph mutation (src/pl_object.c)
\* ------------------------------------------------------------------------

\* resize_object without the truncation of the length
resize_object_keep_length(obj, capacity) ==
    [class |-> obj.class, capacity |-> capacity, data |-> obj.data, attribute |-> NULL]

\* resize_object's effect on the struct: the new struct is built from class,
\* capacity, length and data only, and the length is cut to the capacity
resize_object(obj, capacity) ==
    [class |-> obj.class,
     capacity |-> capacity,
     data |-> IF capacity < Len(obj.data) THEN SubSeq(obj.data, 1, capacity) ELSE obj.data,
     attribute |-> NULL]

\* reserve_object's effect on the struct once its guards have passed
reserve_object(obj, capacity) ==
    IF obj.capacity >= capacity THEN obj
    ELSE resize_object(obj, GrowLoop(1, capacity))

\* primitive_extend_object(x, item); f = 1: the realloc of x's buffer fails
ExtendObject(x, item, f) ==
    /\ Idle
    /\ UNCHANGED <<live, held, tables, fault, gcpos>>
    /\ IF heap[x].class # PL_CLASS_LIST
       THEN err' = PL_ERROR_INVALID_CLASS /\ UNCHANGED heap
       ELSE IF ~(Len(heap[x].data) + 1 > 0 /\ Len(heap[x].data) + 1 < PL_OBJECT_MAX_CAPACITY)
       THEN err' = PL_ERROR_INVALID_CAPACITY /\ UNCHANGED heap
       ELSE IF heap[x].capacity < Len(heap[x].data) + 1 /\ f = 1
       THEN err' = PL_ERROR_ALLOC_FAIL /\ UNCHANGED heap
       ELSE LET r == reserve_object(heap[x], Len(heap[x].data) + 1) IN
            /\ heap' = [heap EXCEPT ![x] = [r EXCEPT !.data = Append(r.data, item)]]
            /\ err' = PL_ERROR_NONE

\* primitive_set_object(x, index, item)
SetObject(x, index, item) ==
    /\ Idle
    /\ UNCHANGED <<live, held, tables, fault, gcpos>>
    /\ IF ~(index >= 0 /\ index <= Len(heap[x].data) - 1)
       THEN err' = PL_ERROR_INDEX_OUT_OF_BOUND /\ UNCHANGED heap
       ELSE IF heap[x].class # PL_CLASS_LIST
       THEN err' = PL_ERROR_INVALID_CLASS /\ UNCHANGED heap
       ELSE /\ heap' = [heap EXCEPT ![x].data[index + 1] = item]
            /\ err' = PL_ERROR_NONE

\* set_attribute's first step on an object without attributes: x->attribute
\* becomes a list object obtained from new_object
SetAttribute(x, attribute) ==
    /\ Idle
    /\ heap[x].attribute = NULL
    /\ heap[attribute].class = PL_CLASS_LIST
    /\ UNCHANGED <<live, held, tables, fault, gcpos>>
    /\ heap' = [heap EXCEPT ![x].attribute = attribute]
    /\ err' = PL_ERROR_NONE

\* ------------------------------------------------------------------------
\* The objects transitively referenced from a set of roots
\* ------------------------------------------------------------------------
Succ(a) ==
    (IF heap[a].class = PL_CLASS_LIST THEN Range(heap[a].data) \ {NULL} ELSE {})
    \cup (IF heap[a].attribute # NULL THEN {heap[a].attribute} ELSE {})

RECURSIVE ClosureFrom(_)
ClosureFrom(S) ==
    LET T == S \cup UNION {Succ(a) : a \in S} IN
    IF T = S THEN S ELSE ClosureFrom(T)

Roots == Range(global_directly_reachable.data)
Closure == ClosureFrom(Roots)

\* ------------------------------------------------------------------------
\* garbage_collect, in the steps of its code
\* ------------------------------------------------------------------------

\* init_table on one table pointer
init_table(table) == IF table.st = "null" THEN TNew ELSE table

\* resize_object applied to a table
resize_table(table, capacity) ==
    [st |-> "live",
     capacity |-> capacity,
     data |-> IF capacity < Len(table.data) THEN SubSeq(table.data, 1, capacity)
              ELSE table.data]

\* garbage_collect returns to its caller, normally or by a throw
GCReturn(t, d, r, u, e, flt) ==
    /\ global_table' = t
    /\ global_directly_reachable' = d
    /\ global_reachable' = r
    /\ global_reachable_unordered' = u
    /\ err' = e
    /\ fault' = flt
    /\ gc_pc' = "idle"
    /\ head_index' = 0
    /\ gc_i' = 0

\* garbage_collect goes on with its next step
GCGoOn(t, d, r, u, pc, h, i) ==
    /\ global_table' = t
    /\ global_directly_reachable' = d
    /\ global_reachable' = r
    /\ global_reachable_unordered' = u
    /\ gc_pc' = pc
    /\ head_index' = h
    /\ gc_i' = i
    /\ UNCHANGED <<err, fault>>

\* From the entry of garbage_collect to the start of update_reachable's loop.
\* f names the allocation that fails: 1..4 the malloc of init_table for the
\* allocation table, the root table, the reachable table and the queue,
\* 5 and 6 the realloc of the reachable table and of the queue.
GCStart(f) ==
    /\ Idle
    /\ UNCHANGED <<heap, live, held>>
    /\ LET t0 == global_table
           d0 == global_directly_reachable
           r0 == global_reachable
           u0 == global_reachable_unordered
           t1 == init_table(t0)
           d1 == init_table(d0)
           r1 == init_table(r0)
           u1 == init_table(u0)
           n  == Len(d1.data)
       IN
       IF t0.st = "null" /\ f = 1 THEN GCReturn(t0, d0, r0, u0, PL_ERROR_ALLOC_FAIL, "none")
       ELSE IF d0.st = "null" /\ f = 2 THEN GCReturn(t1, d0, r0, u0, PL_ERROR_ALLOC_FAIL, "none")
       ELSE IF r0.st = "null" /\ f = 3 THEN GCReturn(t1, d1, r0, u0, PL_ERROR_ALLOC_FAIL, "none")
       ELSE IF u0.st = "null" /\ f = 4 THEN GCReturn(t1, d1, r1, u0, PL_ERROR_ALLOC_FAIL, "none")
       ELSE IF d1.st = "freed" THEN GCReturn(t1, d1, r1, u1, err, "use_after_free")
       ELSE IF n = 0 THEN GCGoOn(t1, d1, r1, u1, "sweep", 0, 0)
       ELSE IF r1.st = "freed" THEN GCReturn(t1, d1, r1, u1, err, "use_after_free")
       ELSE IF f = 5 THEN GCReturn(t1, d1, r1, u1, PL_ERROR_ALLOC_FAIL, "none")
       ELSE LET r2 == resize_table(r1, n) IN
            IF u1.st = "freed" THEN GCReturn(t1, d1, r2, u1, err, "use_after_free")
            ELSE IF f = 6 THEN GCReturn(t1, d1, r2, u1, PL_ERROR_ALLOC_FAIL, "none")
            ELSE LET u2 == resize_table(u1, n) IN
                 GCGoOn(t1, d1, [r2 EXCEPT !.data = d1.data],
                        [u2 EXCEPT !.data = d1.data], "bfs", 0, 0)

\* faulty variant of VisitReference: the reference is appended to the queue
\* whether or not the reachable table already held it
VisitReference_enqueue_always(v, f, h, i) ==
    LET rec == table_record_object(global_reachable, v, f = 1) IN
    IF rec.err # PL_ERROR_NONE
    THEN GCReturn(global_table, global_directly_reachable, global_reachable,
                  global_reachable_unordered, rec.err, "none")
    ELSE LET q == global_reachable_unordered IN
         IF q.capacity < Len(q.data) + 1 /\ f = 2
         THEN GCReturn(global_table, global_directly_reachable, rec.tab, q,
                       PL_ERROR_ALLOC_FAIL, "none")
         ELSE GCGoOn(global_table, global_directly_reachable, rec.tab,
                     [q EXCEPT !.capacity = reserve_capacity(q.capacity, Len(q.data) + 1),
                               !.data = Append(q.data, v)],
                     "bfs", h, i)

\* update_reachable's treatment of one reference v found in the head item:
\* record it in the reachable table and, if it was new, append it to the queue.
\* f names the allocation that fails: 1 the realloc of the reachable table,
\* 2 the realloc of the queue.
VisitReference(v, f, h, i) ==
    LET rec == table_record_object(global_reachable, v, f = 1) IN
    IF rec.err # PL_ERROR_NONE
    THEN GCReturn(global_table, global_directly_reachable, global_reachable,
                  global_reachable_unordered, rec.err, "none")
    ELSE IF Len(rec.tab.data) > Len(global_reachable.data)
    THEN LET q == global_reachable_unordered IN
         IF q.capacity < Len(q.data) + 1 /\ f = 2
         THEN GCReturn(global_table, global_directly_reachable, rec.tab, q,
                       PL_ERROR_ALLOC_FAIL, "none")
         ELSE GCGoOn(global_table, global_directly_reachable, rec.tab,
                     [q EXCEPT !.capacity = reserve_capacity(q.capacity, Len(q.data) + 1),
                               !.data = Append(q.data, v)],
                     "bfs", h, i)
    ELSE GCGoOn(global_table, global_directly_reachable, rec.tab,
                global_reachable_unordered, "bfs", h, i)

\* One step of update_reachable's loop on the head item: the element at the
\* inner index of a list, or, past the elements, the attribute and the move
\* to the next queue entry.
GCVisit(f) ==
    /\ gc_pc = "bfs"
    /\ fault = "none"
    /\ head_index <= Len(global_reachable_unordered.data) - 1
    /\ UNCHANGED <<heap, live, held>>
    /\ LET head_item == global_reachable_unordered.data[head_index + 1] IN
       IF head_item \notin live
       THEN GCReturn(global_table, global_directly_reachable, global_reachable,
                     global_reachable_unordered, err, "use_after_free")
       ELSE IF heap[head_item].class = PL_CLASS_LIST /\ gc_i < Len(heap[head_item].data)
       THEN IF heap[head_item].data[gc_i + 1] # NULL
            THEN VisitReference(heap[head_item].data[gc_i + 1], f, head_index, gc_i + 1)
            ELSE GCGoOn(global_table, global_directly_reachable, global_reachable,
                        global_reachable_unordered, "bfs", head_index, gc_i + 1)
       ELSE IF heap[head_item].attribute # NULL
            THEN VisitReference(heap[head_item].attribute, f, head_index + 1, 0)
            ELSE GCGoOn(global_table, global_directly_reachable, global_reachable,
                        global_reachable_unordered, "bfs", head_index + 1, 0)

\* faulty variant of Unreachable: the sweep looks the objects up in the
\* directly-reachable table instead of the reachable table
Unreachable_by_roots == {v \in Range(global_table.data) :
                            table_find_object(global_directly_reachable.data, v) = -1}

\* the objects garbage_collect's sweep passes to delete_object
Unreachable == {v \in Range(global_table.data) :
                   table_find_object(global_reachable.data, v) = -1}

RECURSIVE DeleteAll(_, _)
DeleteAll(lv, S) ==
    IF S = {} THEN lv
    ELSE LET x == CHOOSE y \in S : TRUE IN DeleteAll(delete_object(lv, x), S \ {x})

\* The rest of garbage_collect once update_reachable has returned: the sweep,
\* the copy of the reachable table and the final resize.
\* f = 1: the realloc of the allocation table fails.
GCSweep(f) ==
    /\ fault = "none"
    /\ \/ gc_pc = "sweep"
       \/ gc_pc = "bfs" /\ head_index > Len(global_reachable_unordered.data) - 1
    /\ LET t == global_table
           r == global_reachable
           n == Len(r.data)
       IN
       IF r.st = "freed"
       THEN /\ GCReturn(t, global_directly_reachable, r, global_reachable_unordered,
                        err, "use_after_free")
            /\ UNCHANGED <<heap, live, held>>
       ELSE IF ~(Unreachable \subseteq live)
       THEN /\ GCReturn(t, global_directly_reachable, r, global_reachable_unordered,
                        err, "double_free")
            /\ UNCHANGED <<heap, live, held>>
       ELSE IF n > t.capacity
       THEN /\ GCReturn(t, global_directly_reachable, r, global_reachable_unordered,
                        err, "buffer_overflow")
            /\ live' = DeleteAll(live, Unreachable)
            /\ UNCHANGED <<heap, held>>
       ELSE /\ live' = DeleteAll(live, Unreachable)
            /\ heap' = [a \in DOMAIN heap |-> IF a \in live' THEN heap[a] ELSE Blank]
            /\ held' = held \cap Closure
            /\ IF f = 1
               THEN GCReturn([t EXCEPT !.data = r.data], global_directly_reachable, r,
                             global_reachable_unordered, PL_ERROR_ALLOC_FAIL, "none")
               ELSE GCReturn(resize_table([t EXCEPT !.data = r.data], IF n = 0 THEN 1 ELSE n),
                             global_directly_reachable, r,
                             global_reachable_unordered, PL_ERROR_NONE, "none")

\* ------------------------------------------------------------------------
\* kill
\* ------------------------------------------------------------------------
KillReturn(t, d, r, u, e, flt) ==
    /\ global_table' = t
    /\ global_directly_reachable' = d
    /\ global_reachable' = r
    /\ global_reachable_unordered' = u
    /\ err' = e
    /\ fault' = flt

Kill ==
    /\ Idle
    /\ UNCHANGED gcpos
    /\ LET t == global_table
           d == global_directly_reachable
           r == global_reachable
           u == global_reachable_unordered
           tracked == Range(t.data)
       IN
       IF t.st = "null"
       THEN KillReturn(t, d, r, u, err, "null_dereference") /\ UNCHANGED <<heap, live, held>>
       ELSE IF ~(tracked \subseteq live)
       THEN KillReturn(t, d, r, u, err, "double_free") /\ UNCHANGED <<heap, live, held>>
       ELSE /\ live' = DeleteAll(live, tracked)
            /\ heap' = [a \in DOMAIN heap |-> IF a \in live' THEN heap[a] ELSE Blank]
            /\ held' = {}
            /\ IF d.st = "null"
               THEN KillReturn(t, d, r, u, PL_ERROR_INVALID_NULL_POINTER, "none")
               ELSE IF d.st = "freed" THEN KillReturn(t, d, r, u, err, "double_free")
               ELSE IF r.st = "null"
               THEN KillReturn(t, TFreed, r, u, PL_ERROR_INVALID_NULL_POINTER, "none")
               ELSE IF r.st = "freed" THEN KillReturn(t, TFreed, r, u, err, "double_free")
               ELSE IF u.st = "null"
               THEN KillReturn(t, TFreed, TFreed, u, PL_ERROR_INVALID_NULL_POINTER, "none")
               ELSE IF u.st = "freed" THEN KillReturn(t, TFreed, TFreed, u, err, "double_free")
               ELSE KillReturn(TNull, TNull, TNull, TNull, PL_ERROR_NONE, "none")

\* ------------------------------------------------------------------------
\* What the model records about the calls
\* ------------------------------------------------------------------------

\* the call that has just returned is recorded under this name
Returned(name) ==
    /\ op' = IF gc_pc' = "idle" THEN Call(name, NULL) ELSE op
    /\ UNCHANGED errvars

\* new_object has returned: the object it created, if any, is recorded too
ReturnedObject ==
    /\ op' = Call("new_object", IF live' \subseteq live THEN NULL
                                ELSE CHOOSE object \in live' \ live : TRUE)
    /\ UNCHANGED errvars

\* at most MaxFail allocations fail in one behaviour
Budget(f) ==
    /\ f = 0 \/ failures < MaxFail
    /\ failures' = IF gc_pc' = "idle" /\ err' = PL_ERROR_ALLOC_FAIL /\ fault' = "none"
                   THEN failures + 1 ELSE failures

\* ------------------------------------------------------------------------
\* The collector under a mutator that builds object graphs out of lists and
\* attributes: valid arguments only, no allocation fails, no kill
\* ------------------------------------------------------------------------
Next ==
    \/ \E class \in ValidClasses, capacity \in {1} :
          NewObject(class, capacity, 0) /\ Returned("mutator") /\ UNCHANGED failures
    \/ \E x \in held : DirectlyReachable(x, 0) /\ Returned("mutator") /\ UNCHANGED failures
    \/ \E x \in held : DirectlyUnreachable(x, 0) /\ Returned("mutator") /\ UNCHANGED failures
    \/ \E x \in {h \in held : Len(heap[h].data) < MaxLen}, item \in held \cup {NULL} :
          ExtendObject(x, item, 0) /\ Returned("mutator") /\ UNCHANGED failures
    \/ \E x \in held, index \in 0..(MaxLen - 1), item \in held \cup {NULL} :
          SetObject(x, index, item) /\ Returned("mutator") /\ UNCHANGED failures
    \/ \E x \in {h \in held : heap[h].class = PL_CLASS_CHAR}, attribute \in held :
          SetAttribute(x, attribute) /\ Returned("mutator") /\ UNCHANGED failures
    \/ GCStart(0) /\ Returned("garbage_collect") /\ UNCHANGED failures
    \/ GCVisit(0) /\ Returned("garbage_collect") /\ UNCHANGED failures
    \/ GCSweep(0) /\ Returned("garbage_collect") /\ UNCHANGED failures

Spec == Init /\ [][Next]_vars

\* ------------------------------------------------------------------------
\* The collector's life cycle: any arguments, any allocation may fail, kill;
\* the objects are never linked to each other
\* ------------------------------------------------------------------------
LifeNext ==
    \/ \E in \in NewObjectInputs, f \in 0..3 :
          NewObject(in[1], in[2], f) /\ ReturnedObject /\ Budget(f)
    \/ \E x \in held \cup {NULL}, f \in 0..2 :
          DirectlyReachable(x, f) /\ Returned("directly_reachable") /\ Budget(f)
    \/ \E x \in held \cup {NULL}, f \in 0..1 :
          DirectlyUnreachable(x, f) /\ Returned("directly_unreachable") /\ Budget(f)
    \/ \E f \in 0..6 : GCStart(f) /\ Returned("garbage_collect") /\ Budget(f)
    \/ \E f \in 0..2 : GCVisit(f) /\ Returned("garbage_collect") /\ Budget(f)
    \/ \E f \in 0..1 : GCSweep(f) /\ Returned("garbage_collect") /\ Budget(f)
    \/ Kill /\ Returned("kill") /\ Budget(0)

LifeSpec == Init /\ [][LifeNext]_vars

\* ------------------------------------------------------------------------
\* Object Model operations on one object (src/pl_object.c, src/pl_gc.c)
\* ------------------------------------------------------------------------

\* a long (8 bytes) is held as three limbs of 21 bits, <<a, b, c>> for
\* a * Limb^2 + b * Limb + c; an int has INT_LIMBS values of the middle limb
Limb == 2097152
INT_LIMBS == 1024

\* the missing-value sentinels; NAN is kept symbolic
PL_CHAR_NA == 0
PL_INT_NA == 2147483647
PL_LONG_NA == <<Limb - 1, Limb - 1, Limb - 1>>
PL_DOUBLE_NA == "NAN"

\* the sentinel of each class
NAOf(class) ==
    CASE class = PL_CLASS_CHAR -> PL_CHAR_NA
      [] class = PL_CLASS_INT -> PL_INT_NA
      [] class = PL_CLASS_LONG -> PL_LONG_NA
      [] class = PL_CLASS_DOUBLE -> PL_DOUBLE_NA
      [] class = PL_CLASS_LIST -> NULL

\* the element values the operations are tried with: the sentinel of the
\* class and one ordinary value
Values(class) ==
    CASE class = PL_CLASS_CHAR -> {PL_CHAR_NA, 97}
      [] class = PL_CLASS_INT -> {5, PL_INT_NA}
      [] class = PL_CLASS_LONG -> {<<0, 0, 5>>, PL_LONG_NA}
      [] class = PL_CLASS_DOUBLE -> {"2.5", PL_DOUBLE_NA}
      [] class = PL_CLASS_LIST -> {NULL, 1}

Classes == 0..(PL_NUM_CLASS - 1)

\* pl_is_na on an int
is_na(x) == x = PL_INT_NA

PL_CLASS_INHERIT == [class \in Classes |-> -1]

\* pl_class_ns.type on a defined class
RECURSIVE type(_)
type(derived) ==
    IF PL_CLASS_INHERIT[derived] # -1 THEN type(PL_CLASS_INHERIT[derived]) ELSE derived

\* check_index_out_of_bound's condition
index_in_bound(obj, index) == index >= 0 /\ index <= Len(obj.data) - 1

\* an operation's outcome: the object as it leaves it, the error it raised,
\* and the value it returned
Outcome(obj, e, ret) == [obj |-> obj, err |-> e, ret |-> ret]

\* pl_gc_ns.resize_object; failing: realloc returns NULL
resize_outcome(obj, capacity, failing) ==
    IF ~(capacity > 0 /\ capacity <= PL_OBJECT_MAX_CAPACITY)
    THEN Outcome(obj, PL_ERROR_INVALID_CAPACITY, NULL)
    ELSE IF failing THEN Outcome(obj, PL_ERROR_ALLOC_FAIL, NULL)
    ELSE Outcome(resize_object(obj, capacity), PL_ERROR_NONE, NULL)

\* reserve_object without the test for enough memory
reserve_outcome_always_resize(obj, capacity, failing) ==
    IF ~(capacity > 0 /\ capacity < PL_OBJECT_MAX_CAPACITY)
    THEN Outcome(obj, PL_ERROR_INVALID_CAPACITY, NULL)
    ELSE resize_outcome(obj, GrowLoop(1, capacity), failing)

\* pl_gc_ns.reserve_object; failing: realloc returns NULL
reserve_outcome(obj, capacity, failing) ==
    IF ~(capacity > 0 /\ capacity < PL_OBJECT_MAX_CAPACITY)
    THEN Outcome(obj, PL_ERROR_INVALID_CAPACITY, NULL)
    ELSE IF obj.capacity >= capacity THEN Outcome(obj, PL_ERROR_NONE, NULL)
    ELSE resize_outcome(obj, GrowLoop(1, capacity), failing)

\* primitive_shrink
shrink_outcome(obj, capacity, failing) ==
    IF is_na(capacity) THEN Outcome(obj, PL_ERROR_INVALID_NA, NULL)
    ELSE IF capacity >= obj.capacity THEN Outcome(obj, PL_ERROR_NONE, NULL)
    ELSE resize_outcome(obj, capacity, failing)

\* primitive_set_<T>, primitive_set_object for T = PL_CLASS_LIST
set_outcome(obj, T, index, item) ==
    IF is_na(index) THEN Outcome(obj, PL_ERROR_NONE, NULL)
    ELSE IF ~index_in_bound(obj, index)
    THEN Outcome(obj, PL_ERROR_INDEX_OUT_OF_BOUND, NULL)
    ELSE IF type(obj.class) # T THEN Outcome(obj, PL_ERROR_INVALID_CLASS, NULL)
    ELSE Outcome([obj EXCEPT !.data[index + 1] = item], PL_ERROR_NONE, NULL)

\* primitive_set_by_indices' copy loop, from position i of indices on
RECURSIVE SetLoop(_, _, _, _, _)
SetLoop(data, length, indices, array, i) ==
    IF i > length THEN data
    ELSE SetLoop(IF is_na(indices[i]) THEN data
                 ELSE [data EXCEPT ![indices[i] + 1] = array[i]],
                 length, indices, array, i + 1)

\* primitive_set_by_indices writing the valid indices before it reports an
\* invalid one
set_by_indices_outcome_write_first(obj, length, indices, array) ==
    IF is_na(length) THEN Outcome(obj, PL_ERROR_INVALID_NA, NULL)
    ELSE IF length = 0 THEN Outcome(obj, PL_ERROR_NONE, NULL)
    ELSE IF ~(length > 0) THEN Outcome(obj, PL_ERROR_INVALID_LENGTH, NULL)
    ELSE LET valid == [i \in 1..length |-> IF index_in_bound(obj, indices[i])
                                           THEN indices[i] ELSE PL_INT_NA]
             written == [obj EXCEPT !.data = SetLoop(obj.data, length, valid, array, 1)]
         IN  IF \E i \in 1..length : ~is_na(indices[i]) /\ ~index_in_bound(obj, indices[i])
             THEN Outcome(written, PL_ERROR_INDEX_OUT_OF_BOUND, NULL)
             ELSE Outcome(written, PL_ERROR_NONE, NULL)

\* primitive_set_by_indices
set_by_indices_outcome(obj, length, indices, array) ==
    IF is_na(length) THEN Outcome(obj, PL_ERROR_INVALID_NA, NULL)
    ELSE IF length = 0 THEN Outcome(obj, PL_ERROR_NONE, NULL)
    ELSE IF ~(length > 0) THEN Outcome(obj, PL_ERROR_INVALID_LENGTH, NULL)
    ELSE IF \E i \in 1..length : ~is_na(indices[i]) /\ ~index_in_bound(obj, indices[i])
    THEN Outcome(obj, PL_ERROR_INDEX_OUT_OF_BOUND, NULL)
    ELSE Outcome([obj EXCEPT !.data = SetLoop(obj.data, length, indices, array, 1)],
                 PL_ERROR_NONE, NULL)

\* primitive_set_range; array holds end - start + 1 elements
set_range_outcome(obj, start, end, array) ==
    IF ~index_in_bound(obj, start) \/ ~index_in_bound(obj, end)
    THEN Outcome(obj, PL_ERROR_INDEX_OUT_OF_BOUND, NULL)
    ELSE IF start > end THEN Outcome(obj, PL_ERROR_NONE, NULL)
    ELSE Outcome([obj EXCEPT !.data = [k \in 1..Len(obj.data) |->
                                          IF k >= start + 1 /\ k <= end + 1
                                          THEN array[k - start] ELSE obj.data[k]]],
                 PL_ERROR_NONE, NULL)

\* primitive_extract_<T> checking the bound of the index before the test for
\* a missing index
extract_outcome_bound_first(obj, T, index) ==
    IF type(obj.class) # T THEN Outcome(obj, PL_ERROR_INVALID_CLASS, NULL)
    ELSE IF ~index_in_bound(obj, index)
    THEN Outcome(obj, PL_ERROR_INDEX_OUT_OF_BOUND, NULL)
    ELSE Outcome(obj, PL_ERROR_NONE, obj.data[index + 1])

\* primitive_extract_<T>, primitive_extract_object for T = PL_CLASS_LIST
extract_outcome(obj, T, index) ==
    IF type(obj.class) # T THEN Outcome(obj, PL_ERROR_INVALID_CLASS, NULL)
    ELSE IF is_na(index) THEN Outcome(obj, PL_ERROR_NONE, NAOf(T))
    ELSE IF ~index_in_bound(obj, index)
    THEN Outcome(obj, PL_ERROR_INDEX_OUT_OF_BOUND, NULL)
    ELSE Outcome(obj, PL_ERROR_NONE, obj.data[index + 1])

\* primitive_extend_<T>, primitive_extend_object for T = PL_CLASS_LIST
extend_outcome(obj, T, item, failing) ==
    IF type(obj.class) # T THEN Outcome(obj, PL_ERROR_INVALID_CLASS, NULL)
    ELSE LET r == reserve_outcome(obj, Len(obj.data) + 1, failing) IN
         IF r.err # PL_ERROR_NONE THEN r
         ELSE Outcome([r.obj EXCEPT !.data = Append(r.obj.data, item)], PL_ERROR_NONE, NULL)

\* extend(x, y)
extend_object_outcome(obj, y, failing) ==
    IF type(obj.class) # type(y.class) THEN Outcome(obj, PL_ERROR_INVALID_CLASS, NULL)
    ELSE IF Len(y.data) = 0 THEN Outcome(obj, PL_ERROR_NONE, NULL)
    ELSE LET result_length == Len(obj.data) + Len(y.data) IN
         IF ~(result_length > 0 /\ result_length < PL_OBJECT_MAX_CAPACITY)
         THEN Outcome(obj, PL_ERROR_INVALID_CAPACITY, NULL)
         ELSE LET r == reserve_outcome(obj, result_length, failing) IN
              IF r.err # PL_ERROR_NONE THEN r
              ELSE Outcome([r.obj EXCEPT !.data = r.obj.data \o y.data], PL_ERROR_NONE, NULL)

\* primitive_remove: the elements after end are moved down to start and the
\* length becomes length - (end - start + 1)
remove_outcome(obj, start, end) ==
    IF is_na(start) \/ is_na(end) THEN Outcome(obj, PL_ERROR_INVALID_NA, NULL)
    ELSE IF ~index_in_bound(obj, start) \/ ~index_in_bound(obj, end)
    THEN Outcome(obj, PL_ERROR_INDEX_OUT_OF_BOUND, NULL)
    ELSE IF end + 1 = Len(obj.data)
    THEN Outcome([obj EXCEPT !.data = SubSeq(obj.data, 1, start)], PL_ERROR_NONE, NULL)
    ELSE Outcome([obj EXCEPT !.data = SubSeq(obj.data, 1, start)
                                        \o SubSeq(obj.data, end + 2, Len(obj.data))],
                 PL_ERROR_NONE, NULL)

\* an operation on object x ends with outcome r
Apply(x, r) ==
    /\ Idle
    /\ err' = r.err
    /\ heap' = [heap EXCEPT ![x] = r.obj]
    /\ UNCHANGED <<live, held, tables, fault, gcpos, failures, errvars>>

ResizeObject(x, capacity, f) == Apply(x, resize_outcome(heap[x], capacity, f = 1))
ReserveObject(x, capacity, f) == Apply(x, reserve_outcome(heap[x], capacity, f = 1))
PrimitiveShrink(x, capacity, f) == Apply(x, shrink_outcome(heap[x], capacity, f = 1))
PrimitiveSet(x, T, index, item) == Apply(x, set_outcome(heap[x], T, index, item))
PrimitiveSetByIndices(x, length, indices, array) ==
    Apply(x, set_by_indices_outcome(heap[x], length, indices, array))
PrimitiveSetRange(x, start, end, array) ==
    Apply(x, set_range_outcome(heap[x], start, end, array))
PrimitiveExtract(x, T, index) == Apply(x, extract_outcome(heap[x], T, index))
PrimitiveExtend(x, T, item, f) == Apply(x, extend_outcome(heap[x], T, item, f = 1))
Extend(x, y, f) == Apply(x, extend_object_outcome(heap[x], y, f = 1))

\* primitive_remove; when the moved elements end beyond the buffer the
\* memmove writes outside it: the process may stop there or go on with the
\* length the function computes
PrimitiveRemove(x, start, end) ==
    LET r == remove_outcome(heap[x], start, end) IN
    IF Len(r.obj.data) > heap[x].capacity
    THEN \/ /\ Idle
            /\ fault' = "buffer_overflow"
            /\ UNCHANGED <<heap, live, held, tables, err, gcpos, failures, errvars>>
         \/ Apply(x, r)
    ELSE Apply(x, r)

\* the inputs of the operations
Seqs(V, n) == UNION {[1..k -> V] : k \in 0..n}
IndexInputs == {-1, 0, MaxObjLen - 1, PL_INT_NA}
CapacityInputs ==
    {0, 1, MaxObjLen - 1, MaxObjLen + 1, threshold,
     PL_OBJECT_MAX_CAPACITY, PL_OBJECT_MAX_CAPACITY + 1, PL_INT_NA}
ObjCapacities == {1, MaxObjLen, MaxObjLen + 1}

\* one object of any class, capacity and content, tracked by the allocation table
ObjInit ==
    /\ \E class \in Classes, capacity \in ObjCapacities :
          \E data \in Seqs(Values(class), MaxObjLen) :
             /\ Len(data) <= capacity
             /\ heap = [a \in Addr |->
                          IF a = 1 THEN [class |-> class, capacity |-> capacity,
                                         data |-> data, attribute |-> NULL]
                          ELSE Blank]
    /\ live = {1}
    /\ held = {1}
    /\ global_table = [TNew EXCEPT !.data = <<1>>]
    /\ global_directly_reachable = TNull
    /\ global_reachable = TNull
    /\ global_reachable_unordered = TNull
    /\ err = PL_ERROR_NONE
    /\ fault = "none"
    /\ op = NoOp
    /\ gc_pc = "idle"
    /\ head_index = 0
    /\ gc_i = 0
    /\ failures = 0
    /\ NoException

ObjNext ==
    \/ \E x \in held, capacity \in CapacityInputs, f \in 0..1 :
          ResizeObject(x, capacity, f) /\ op' = Call("resize_object", NULL)
    \/ \E x \in held, capacity \in CapacityInputs, f \in 0..1 :
          ReserveObject(x, capacity, f) /\ op' = Call("reserve_object", NULL)
    \/ \E x \in held, capacity \in CapacityInputs, f \in 0..1 :
          PrimitiveShrink(x, capacity, f) /\ op' = Call("primitive_shrink", NULL)
    \/ \E x \in held, T \in Classes, index \in IndexInputs :
          \E item \in Values(T) :
             PrimitiveSet(x, T, index, item) /\ op' = Call("primitive_set", NULL)
    \/ \E x \in held, indices \in Seqs(IndexInputs, 2) :
          \E length \in (IF indices = <<>> THEN {-1, 0, PL_INT_NA} ELSE {Len(indices)}),
             item \in Values(heap[x].class) :
             /\ PrimitiveSetByIndices(x, length, indices, [k \in 1..Len(indices) |-> item])
             /\ op' = Call("primitive_set_by_indices", NULL)
    \/ \E x \in held, start \in IndexInputs, end \in IndexInputs :
          \E item \in Values(heap[x].class) :
             /\ PrimitiveSetRange(x, start, end, [k \in 1..(MaxObjLen + 1) |-> item])
             /\ op' = Call("primitive_set_range", NULL)
    \/ \E x \in held, T \in Classes, index \in IndexInputs :
          /\ PrimitiveExtract(x, T, index)
          /\ op' = Call("primitive_extract", extract_outcome(heap[x], T, index).ret)
    \/ \E x \in {h \in held : Len(heap[h].data) < MaxObjLen}, T \in Classes, f \in 0..1 :
          \E item \in Values(T) :
             PrimitiveExtend(x, T, item, f) /\ op' = Call("primitive_extend", NULL)
    \/ \E x \in held, class \in Classes, f \in 0..1 :
          \E data \in Seqs(Values(class), MaxObjLen - Len(heap[x].data)) :
             /\ Extend(x, [class |-> class, data |-> data], f)
             /\ op' = Call("extend", NULL)
    \/ \E x \in {h \in held : Len(heap[h].data) <= MaxObjLen},
          start \in IndexInputs, end \in IndexInputs :
          PrimitiveRemove(x, start, end) /\ op' = Call("primitive_remove", NULL)

ObjSpec == ObjInit /\ [][ObjNext]_vars

\* ------------------------------------------------------------------------
\* Exception Core (src/pl_error.h, src/pl_error.c): a program that opens
\* try/catch pairs, calls functions, throws and rethrows
\* ------------------------------------------------------------------------

\* the error codes thrown
ErrorCodes == {PL_ERROR_NONE, PL_ERROR_ALLOC_FAIL, PL_ERROR_INVALID_CLASS}

\* the places a throw or rethrow is written at (__func__, __FILE__, __LINE__)
Sites == 1..2

\* the format strings passed to throw
Formats == {"", "%s"}

\* one entry of the control stack
Entry(kind, previous_frame, caught, direct) ==
    [kind |-> kind, previous_frame |-> previous_frame, caught |-> caught, direct |-> direct]

Running == process.status = "running"

\* save_error_message rewriting the buffer for an empty format too
save_error_message_always(buffer, error, site, format) == <<error, site, format>>

\* save_error_message: the buffer after the call
save_error_message(buffer, error, site, format) ==
    IF format = "" THEN buffer ELSE <<error, site, format>>

\* default_error_handler without the message
default_error_handler_silent(buffer) ==
    [status |-> "exited", code |-> EXIT_FAILURE, out |-> <<>>]

\* default_error_handler
default_error_handler(buffer) ==
    [status |-> "exited", code |-> EXIT_FAILURE, out |-> buffer]

\* pl_error_try: the scope saves the target, installs its own and resets the code
TryEnter ==
    /\ Running
    /\ Len(stack) < MaxDepth
    /\ stack' = Append([i \in 1..Len(stack) |->
                          IF stack[i].kind = "handler"
                          THEN [stack[i] EXCEPT !.direct = FALSE] ELSE stack[i]],
                       Entry("body", pl_error_exception_frames.frame, PL_ERROR_NONE, TRUE))
    /\ pl_error_exception_frames' = [frame |-> Len(stack) + 1, error |-> PL_ERROR_NONE]
    /\ UNCHANGED <<global_error_message, process>>

\* the end of a try body that leaves the target as it is
BodyExit_keep_target ==
    /\ Running
    /\ stack # <<>>
    /\ stack[Len(stack)].kind = "body"
    /\ pl_error_exception_frames' = [pl_error_exception_frames EXCEPT !.error = PL_ERROR_NONE]
    /\ stack' = SubSeq(stack, 1, Len(stack) - 1)
    /\ UNCHANGED <<global_error_message, process>>

\* the try body runs to its end: pl_error_catch resets the code, restores the
\* target and skips the handler
BodyExit ==
    /\ Running
    /\ stack # <<>>
    /\ stack[Len(stack)].kind = "body"
    /\ pl_error_exception_frames' =
          [frame |-> stack[Len(stack)].previous_frame, error |-> PL_ERROR_NONE]
    /\ stack' = SubSeq(stack, 1, Len(stack) - 1)
    /\ UNCHANGED <<global_error_message, process>>

\* the end of a handler that resets the stored code
HandlerEnd_clearing ==
    /\ Running
    /\ stack # <<>>
    /\ stack[Len(stack)].kind = "handler"
    /\ stack' = SubSeq(stack, 1, Len(stack) - 1)
    /\ pl_error_exception_frames' = [pl_error_exception_frames EXCEPT !.error = PL_ERROR_NONE]
    /\ UNCHANGED <<global_error_message, process>>

\* the handler runs to its end
HandlerEnd ==
    /\ Running
    /\ stack # <<>>
    /\ stack[Len(stack)].kind = "handler"
    /\ stack' = SubSeq(stack, 1, Len(stack) - 1)
    /\ UNCHANGED <<pl_error_exception_frames, global_error_message, process>>

\* a function is called
CallFunction ==
    /\ Running
    /\ Len(stack) < MaxDepth
    /\ stack' = Append(stack, Entry("call", pl_error_exception_frames.frame,
                                    PL_ERROR_NONE, TRUE))
    /\ UNCHANGED <<pl_error_exception_frames, global_error_message, process>>

\* the function called last returns
ReturnFunction ==
    /\ Running
    /\ stack # <<>>
    /\ stack[Len(stack)].kind = "call"
    /\ stack' = SubSeq(stack, 1, Len(stack) - 1)
    /\ UNCHANGED <<pl_error_exception_frames, global_error_message, process>>

\* a long jump to the outermost scope of the control stack
long_jump_if_catch_outermost(error) ==
    IF pl_error_exception_frames.frame # NULL
    THEN /\ pl_error_exception_frames' = [frame |-> stack[1].previous_frame, error |-> error]
         /\ stack' = IF error # PL_ERROR_NONE
                     THEN <<Entry("handler", stack[1].previous_frame, error, TRUE)>>
                     ELSE <<>>
         /\ UNCHANGED process
    ELSE /\ pl_error_exception_frames' = [pl_error_exception_frames EXCEPT !.error = error]
         /\ process' = default_error_handler(global_error_message')
         /\ UNCHANGED stack

\* long_jump_if_catch followed by default_error_handler: the code is stored;
\* with a target the longjmp lands in that scope's pl_error_catch, which
\* restores the target saved there and runs the handler when the code is
\* not PL_ERROR_NONE; without one the message is printed and the process exits
long_jump_if_catch(error) ==
    LET target == pl_error_exception_frames.frame IN
    IF target # NULL
    THEN /\ pl_error_exception_frames' =
               [frame |-> stack[target].previous_frame, error |-> error]
         /\ stack' = IF error # PL_ERROR_NONE
                     THEN Append(SubSeq(stack, 1, target - 1),
                                 Entry("handler", stack[target].previous_frame, error, TRUE))
                     ELSE SubSeq(stack, 1, target - 1)
         /\ UNCHANGED process
    ELSE /\ pl_error_exception_frames' = [pl_error_exception_frames EXCEPT !.error = error]
         /\ process' = default_error_handler(global_error_message')
         /\ UNCHANGED stack

\* pl_error_throw(error, format, ...)
Throw(error, site, format) ==
    /\ Running
    /\ global_error_message' = save_error_message(global_error_message, error, site, format)
    /\ long_jump_if_catch(error)

\* pl_error_rethrow()
Rethrow(site) ==
    /\ Running
    /\ global_error_message' =
          save_error_message(global_error_message, pl_error_exception_frames.error, site, "")
    /\ long_jump_if_catch(pl_error_exception_frames.error)

ErrNext ==
    \/ TryEnter /\ UNCHANGED <<gcvars, global_bt>>
    \/ BodyExit /\ UNCHANGED <<gcvars, global_bt>>
    \/ HandlerEnd /\ UNCHANGED <<gcvars, global_bt>>
    \/ CallFunction /\ UNCHANGED <<gcvars, global_bt>>
    \/ ReturnFunction /\ UNCHANGED <<gcvars, global_bt>>
    \/ \E error \in ErrorCodes, site \in Sites, format \in Formats :
          Throw(error, site, format) /\ UNCHANGED <<gcvars, global_bt>>
    \/ \E site \in Sites : Rethrow(site) /\ UNCHANGED <<gcvars, global_bt>>

ErrSpec == Init /\ [][ErrNext]_vars

\* ------------------------------------------------------------------------
\* Object Model operations that build new objects (src/pl_object.c): subset,
\* subset_exclude, remove_by_indices, copy, equal, in, as_char, as_int,
\* as_long, as_double, applied to an object x and an object y
\* ------------------------------------------------------------------------

VAddr == 1..MaxVecAddr

\* the element values of the objects the operations are tried on; the
\* values are not negative; a long is <<a, b, c>> for a * Limb^2 + b * Limb + c
VecValues(class) ==
    CASE class = PL_CLASS_CHAR -> {PL_CHAR_NA, 97}
      [] class = PL_CLASS_INT -> {0, 1, CHAR_MAX + 1, PL_INT_NA}
      [] class = PL_CLASS_LONG -> {<<0, 0, 97>>, <<0, INT_LIMBS, 0>>, PL_LONG_NA}
      [] class = PL_CLASS_DOUBLE -> {"2.5", PL_DOUBLE_NA}
      [] class = PL_CLASS_LIST -> {NULL, 1}

\* pl_is_na on an element of an object of type T
elem_is_na(T, v) == v = NAOf(T)

\* == on two elements of type T: a NaN equals nothing
elem_equal(T, a, b) ==
    IF T = PL_CLASS_DOUBLE THEN a # PL_DOUBLE_NA /\ b # PL_DOUBLE_NA /\ a = b ELSE a = b

\* the state of the allocator: the objects, the allocated addresses, the
\* allocation table
World(hp, lv, table) == [heap |-> hp, live |-> lv, table |-> table]

\* what an operation leaves: the state of the allocator, the error raised,
\* the object returned
Result(w, e, ret) == [w |-> w, err |-> e, ret |-> ret]

\* primitive_new = new_object when no allocation fails; a is the address
\* malloc returns
primitive_new(w, class, capacity, a) ==
    IF ~(class >= 0 /\ class < PL_NUM_CLASS) THEN Result(w, PL_ERROR_UNDEFINED_CLASS, NULL)
    ELSE IF ~(capacity > 0 /\ capacity <= PL_OBJECT_MAX_CAPACITY)
    THEN Result(w, PL_ERROR_INVALID_CAPACITY, NULL)
    ELSE Result(World([w.heap EXCEPT ![a] = [class |-> class, capacity |-> capacity,
                                             data |-> <<>>, attribute |-> NULL]],
                      w.live \cup {a},
                      table_record_object(w.table, a, FALSE).tab),
                PL_ERROR_NONE, a)

\* the object a function has just created, with its length set and its
\* elements written
Filled(r, data) ==
    Result([r.w EXCEPT !.heap[r.ret].data = data], PL_ERROR_NONE, r.ret)

\* primitive_subset with the sentinel of int written for a missing index
\* whatever the class of x
primitive_subset_int_sentinel(w, x, length, indices, fresh) ==
    LET obj == w.heap[x] IN
    IF is_na(length) THEN Result(w, PL_ERROR_INVALID_NA, NULL)
    ELSE IF length = 0 THEN primitive_new(w, obj.class, 1, fresh[1])
    ELSE IF ~(length > 0) THEN Result(w, PL_ERROR_INVALID_LENGTH, NULL)
    ELSE IF \E i \in 1..length : ~is_na(indices[i]) /\ ~index_in_bound(obj, indices[i])
    THEN Result(w, PL_ERROR_INDEX_OUT_OF_BOUND, NULL)
    ELSE LET r == primitive_new(w, obj.class, length, fresh[1]) IN
         IF r.err # PL_ERROR_NONE THEN r
         ELSE Filled(r, [i \in 1..length |->
                           IF is_na(indices[i]) THEN PL_INT_NA
                           ELSE obj.data[indices[i] + 1]])

\* primitive_subset(x, length, indices)
primitive_subset(w, x, length, indices, fresh) ==
    LET obj == w.heap[x] IN
    IF is_na(length) THEN Result(w, PL_ERROR_INVALID_NA, NULL)
    ELSE IF length = 0 THEN primitive_new(w, obj.class, 1, fresh[1])
    ELSE IF ~(length > 0) THEN Result(w, PL_ERROR_INVALID_LENGTH, NULL)
    ELSE IF \E i \in 1..length : ~is_na(indices[i]) /\ ~index_in_bound(obj, indices[i])
    THEN Result(w, PL_ERROR_INDEX_OUT_OF_BOUND, NULL)
    ELSE LET r == primitive_new(w, obj.class, length, fresh[1]) IN
         IF r.err # PL_ERROR_NONE THEN r
         ELSE Filled(r, [i \in 1..length |->
                           IF is_na(indices[i]) THEN NAOf(type(obj.class))
                           ELSE obj.data[indices[i] + 1]])

\* copy(x)
copy(w, x, fresh) ==
    LET obj == w.heap[x]
        r == primitive_new(w, obj.class, Len(obj.data), fresh[1])
    IN  IF r.err # PL_ERROR_NONE THEN r ELSE Filled(r, obj.data)

\* primitive_subset_exclude's last loop: the positions still flagged 1 are
\* written to the front of the flags, from position i (0-based) on
RECURSIVE CompactLoop(_, _, _)
CompactLoop(index_array, i, count) ==
    IF i >= Len(index_array) THEN [index_array |-> index_array, count |-> count]
    ELSE IF index_array[i + 1] = 1
    THEN CompactLoop([index_array EXCEPT ![count + 1] = i], i + 1, count + 1)
    ELSE CompactLoop(index_array, i + 1, count)

\* primitive_subset_exclude with the flags allocated before the indices are
\* validated
primitive_subset_exclude_allocate_first(w, x, length, indices, fresh) ==
    LET obj == w.heap[x] IN
    IF is_na(length) THEN Result(w, PL_ERROR_INVALID_NA, NULL)
    ELSE IF length = 0 THEN copy(w, x, fresh)
    ELSE IF ~(length > 0) THEN Result(w, PL_ERROR_INVALID_LENGTH, NULL)
    ELSE LET r == primitive_new(w, PL_CLASS_INT, Len(obj.data), fresh[1]) IN
         IF r.err # PL_ERROR_NONE THEN r
         ELSE IF \E i \in 1..length : ~is_na(indices[i]) /\ ~index_in_bound(obj, indices[i])
         THEN Result(r.w, PL_ERROR_INDEX_OUT_OF_BOUND, NULL)
         ELSE LET flags == [k \in 1..Len(obj.data) |->
                              IF \E i \in 1..length : ~is_na(indices[i]) /\ indices[i] = k - 1
                              THEN 0 ELSE 1]
                  c == CompactLoop(flags, 0, 0)
                  index_flags == Filled(r, c.index_array)
              IN  primitive_subset(index_flags.w, x, c.count, c.index_array, Tail(fresh))

\* primitive_subset_exclude(x, length, indices)
primitive_subset_exclude(w, x, length, indices, fresh) ==
    LET obj == w.heap[x] IN
    IF is_na(length) THEN Result(w, PL_ERROR_INVALID_NA, NULL)
    ELSE IF length = 0 THEN copy(w, x, fresh)
    ELSE IF ~(length > 0) THEN Result(w, PL_ERROR_INVALID_LENGTH, NULL)
    ELSE IF \E i \in 1..length : ~is_na(indices[i]) /\ ~index_in_bound(obj, indices[i])
    THEN Result(w, PL_ERROR_INDEX_OUT_OF_BOUND, NULL)
    ELSE LET r == primitive_new(w, PL_CLASS_INT, Len(obj.data), fresh[1]) IN
         IF r.err # PL_ERROR_NONE THEN r
         ELSE LET flags == [k \in 1..Len(obj.data) |->
                              IF \E i \in 1..length : ~is_na(indices[i]) /\ indices[i] = k - 1
                              THEN 0 ELSE 1]
                  c == CompactLoop(flags, 0, 0)
                  index_flags == Filled(r, c.index_array)
              IN  primitive_subset(index_flags.w, x, c.count, c.index_array, Tail(fresh))

\* subset(x, indices)
subset(w, x, indices, fresh) ==
    IF type(w.heap[indices].class) # PL_CLASS_INT THEN Result(w, PL_ERROR_INVALID_CLASS, NULL)
    ELSE primitive_subset(w, x, Len(w.heap[indices].data), w.heap[indices].data, fresh)

\* subset_exclude(x, indices)
subset_exclude(w, x, indices, fresh) ==
    IF type(w.heap[indices].class) # PL_CLASS_INT THEN Result(w, PL_ERROR_INVALID_CLASS, NULL)
    ELSE primitive_subset_exclude(w, x, Len(w.heap[indices].data), w.heap[indices].data, fresh)

\* primitive_remove_by_indices(x, length, indices)
primitive_remove_by_indices(w, x, length, indices, fresh) ==
    LET r == primitive_subset_exclude(w, x, length, indices, fresh) IN
    IF r.err # PL_ERROR_NONE THEN r
    ELSE Result([r.w EXCEPT !.heap[x].data = r.w.heap[r.ret].data], PL_ERROR_NONE, NULL)

\* the element of y that equal and in read at position i (0-based): beyond
\* the length of y it is whatever the buffer or the memory after it holds
ReadAt(y, i, stale) == IF i < Len(y.data) THEN y.data[i + 1] ELSE stale[i + 1]

\* equal(x, y): tmp = x; x = y; y = x leaves both names on the longer object
equal(w, x, y, fresh, stale) ==
    IF type(w.heap[x].class) # type(w.heap[y].class)
    THEN Result(w, PL_ERROR_INVALID_CLASS, NULL)
    ELSE LET x1 == IF Len(w.heap[x].data) < Len(w.heap[y].data) THEN w.heap[y] ELSE w.heap[x]
             y1 == w.heap[y]
             T == type(y1.class)
         IN  IF ~(Len(x1.data) = Len(y1.data) \/ Len(y1.data) = 1)
             THEN Result(w, PL_ERROR_INCOMPATIBLE_LENGTH, NULL)
             ELSE LET r == primitive_new(w, PL_CLASS_INT,
                                         IF Len(x1.data) = 0 THEN 1 ELSE Len(x1.data), fresh[1])
                  IN  IF r.err # PL_ERROR_NONE THEN r
                      ELSE Filled(r, [k \in 1..Len(x1.data) |->
                             IF elem_is_na(T, x1.data[k]) THEN PL_INT_NA
                             ELSE IF elem_is_na(T, ReadAt(y1, k - 1, stale)) THEN PL_INT_NA
                             ELSE IF elem_equal(T, x1.data[k],
                                                IF Len(y1.data) > 1 THEN y1.data[k]
                                                ELSE y1.data[1])
                                  THEN 1 ELSE 0])

\* the positions (0-based) at which equal reads y beyond its length
equal_reads_beyond(xo, yo) ==
    LET x1 == IF Len(xo.data) < Len(yo.data) THEN yo ELSE xo IN
    {i \in 0..(Len(x1.data) - 1) :
        /\ type(xo.class) = type(yo.class)
        /\ (Len(x1.data) = Len(yo.data) \/ Len(yo.data) = 1)
        /\ i >= Len(yo.data)
        /\ ~elem_is_na(type(yo.class), x1.data[i + 1])}

\* in(x, y)'s inner loop for x[i] (i 0-based) from position j of y on
RECURSIVE InLoop(_, _, _, _, _, _, _)
InLoop(T, xo, yo, i, j, item_result, stale) ==
    IF j >= Len(yo.data) THEN item_result
    ELSE InLoop(T, xo, yo, i, j + 1,
                IF item_result = 1 THEN 1
                ELSE IF elem_equal(T, xo.data[i + 1], yo.data[j + 1]) THEN 1
                ELSE IF T = PL_CLASS_DOUBLE /\ elem_is_na(T, xo.data[i + 1])
                                            /\ elem_is_na(T, ReadAt(yo, i, stale))
                     THEN 1 ELSE 0,
                stale)

\* in(x, y), the in of pl.object
object_in(w, x, y, fresh, stale) ==
    IF type(w.heap[x].class) # type(w.heap[y].class)
    THEN Result(w, PL_ERROR_INVALID_CLASS, NULL)
    ELSE LET xo == w.heap[x]
             yo == w.heap[y]
             r == primitive_new(w, PL_CLASS_INT,
                                IF Len(xo.data) = 0 THEN 1 ELSE Len(xo.data), fresh[1])
         IN  IF r.err # PL_ERROR_NONE THEN r
             ELSE Filled(r, [k \in 1..Len(xo.data) |->
                               InLoop(type(yo.class), xo, yo, k - 1, 0, 0, stale)])

\* the positions (0-based) at which in reads y beyond its length
in_reads_beyond(xo, yo) ==
    {i \in 0..(Len(xo.data) - 1) :
        /\ type(xo.class) = type(yo.class)
        /\ type(yo.class) = PL_CLASS_DOUBLE
        /\ Len(yo.data) > 0
        /\ i >= Len(yo.data)
        /\ elem_is_na(PL_CLASS_DOUBLE, xo.data[i + 1])}

\* a long within the range of int, and its value
long_in_int(v) == v[1] = 0 /\ v[2] < INT_LIMBS
long_value(v) == v[2] * Limb + v[3]

\* (long) of an int or a char that is not negative
to_long(n) == <<0, n \div Limb, n % Limb>>

\* as_char's conversion of one element of a source of type T
as_char_item(T, v) ==
    CASE T = PL_CLASS_CHAR -> v
      [] T = PL_CLASS_INT ->
           IF is_na(v) \/ v < CHAR_MIN \/ v > CHAR_MAX THEN PL_CHAR_NA ELSE v
      [] T = PL_CLASS_LONG ->
           IF v = PL_LONG_NA \/ ~long_in_int(v) THEN PL_CHAR_NA
           ELSE IF long_value(v) > CHAR_MAX THEN PL_CHAR_NA ELSE long_value(v)

\* as_int's conversion of one element of a source of type T
as_int_item(T, v) ==
    CASE T = PL_CLASS_CHAR -> IF v = PL_CHAR_NA THEN PL_INT_NA ELSE v
      [] T = PL_CLASS_INT -> v
      [] T = PL_CLASS_LONG ->
           IF v = PL_LONG_NA \/ ~long_in_int(v) THEN PL_INT_NA ELSE long_value(v)

\* as_long's conversion of one element of a source of type T
as_long_item(T, v) ==
    CASE T = PL_CLASS_CHAR -> IF v = PL_CHAR_NA THEN PL_LONG_NA ELSE to_long(v)
      [] T = PL_CLASS_INT -> IF is_na(v) THEN PL_LONG_NA ELSE to_long(v)
      [] T = PL_CLASS_LONG -> v

\* as_double's conversion of one element of a double
as_double_item(T, v) == CASE T = PL_CLASS_DOUBLE -> v

\* as_char, as_int, as_long, as_double (dst names which) on a source of
\* type char, int, long or list, and as_double on a double: the new object is
\* requested, and given the length of x, before the type of the source is
\* looked at; junk is what malloc left in its buffer
as_class(w, dst, x, fresh, junk) ==
    LET obj == w.heap[x]
        T == type(obj.class)
        r == primitive_new(w, dst, Len(obj.data), fresh[1])
    IN  IF r.err # PL_ERROR_NONE THEN r
        ELSE IF T = PL_CLASS_LIST
        THEN Result(Filled(r, [k \in 1..Len(obj.data) |-> junk[k]]).w,
                    PL_ERROR_INVALID_CLASS, NULL)
        ELSE Filled(r, [k \in 1..Len(obj.data) |->
                          CASE dst = PL_CLASS_CHAR -> as_char_item(T, obj.data[k])
                            [] dst = PL_CLASS_INT -> as_int_item(T, obj.data[k])
                            [] dst = PL_CLASS_LONG -> as_long_item(T, obj.data[k])
                            [] dst = PL_CLASS_DOUBLE -> as_double_item(T, obj.data[k])])

\* the state of the allocator now
Now == World(heap, live, global_table)

\* an operation, the first one on x and y, ends with result r
VecApply(name, r) ==
    /\ Idle
    /\ op = NoOp
    /\ err' = r.err
    /\ heap' = r.w.heap
    /\ live' = r.w.live
    /\ held' = r.w.live
    /\ global_table' = r.w.table
    /\ op' = Call(name, r.ret)
    /\ UNCHANGED <<global_directly_reachable, global_reachable, global_reachable_unordered,
                   fault, gcpos, failures, errvars>>

\* an operation reads outside a buffer and the process stops there
Overread(name) ==
    /\ Idle
    /\ op = NoOp
    /\ fault' = "buffer_overread"
    /\ op' = Call(name, NULL)
    /\ UNCHANGED <<heap, live, held, tables, err, gcpos, failures, errvars>>

\* the addresses malloc gives to the objects an operation creates
Fresh == {s \in [1..2 -> VAddr \ live] : s[1] # s[2]}

\* what reads beyond the length of y find
Stale(y) == [1..MaxVecLen -> VecValues(type(heap[y].class))]

Subset(x, indices, fresh) == VecApply("subset", subset(Now, x, indices, fresh))

SubsetExclude(x, indices, fresh) ==
    VecApply("subset_exclude", subset_exclude(Now, x, indices, fresh))

\* primitive_remove_by_indices takes an array of int: here the elements of
\* an int object
RemoveByIndices(x, indices, fresh) ==
    /\ type(heap[indices].class) = PL_CLASS_INT
    /\ VecApply("remove_by_indices",
                primitive_remove_by_indices(Now, x, Len(heap[indices].data),
                                            heap[indices].data, fresh))

Copy(x, fresh) == VecApply("copy", copy(Now, x, fresh))

AsClass(dst, x, fresh, junk) == VecApply("as_class", as_class(Now, dst, x, fresh, junk))

\* what malloc may have left in the buffer of a new object of class dst that
\* as_class(dst, x) never writes, which happens for a list x
Junk(dst, x) ==
    IF type(heap[x].class) = PL_CLASS_LIST THEN [1..MaxVecLen -> VecValues(dst)]
    ELSE {[k \in 1..MaxVecLen |-> NAOf(dst)]}

\* equal(x, y); a read beyond the capacity of y is outside the buffer
Equal(x, y, fresh, stale) ==
    \/ VecApply("equal", equal(Now, x, y, fresh, stale))
    \/ /\ \E i \in equal_reads_beyond(heap[x], heap[y]) : i >= heap[y].capacity
       /\ Overread("equal")

\* in(x, y); a read beyond the capacity of y is outside the buffer
In(x, y, fresh, stale) ==
    \/ VecApply("in", object_in(Now, x, y, fresh, stale))
    \/ /\ \E i \in in_reads_beyond(heap[x], heap[y]) : i >= heap[y].capacity
       /\ Overread("in")

\* an object as primitive_new_from_array or a later reserve leaves it
VecObject(class, data, capacity) ==
    [class |-> class, capacity |-> capacity, data |-> data, attribute |-> NULL]

\* two objects x (address 1) and y (address 2) of any classes and contents
VecInit ==
    /\ \E cx \in Classes, cy \in Classes :
          \E dx \in Seqs(VecValues(cx), MaxVecLen), dy \in Seqs(VecValues(cy), MaxVecLen) :
             \E capacity \in {IF Len(dy) = 0 THEN 1 ELSE Len(dy), MaxVecLen} :
                heap = [a \in VAddr |->
                          IF a = 1
                          THEN VecObject(cx, dx, IF Len(dx) = 0 THEN 1 ELSE Len(dx))
                          ELSE IF a = 2 THEN VecObject(cy, dy, capacity)
                          ELSE Blank]
    /\ live = {1, 2}
    /\ held = {1, 2}
    /\ global_table = [TNew EXCEPT !.data = <<1, 2>>]
    /\ global_directly_reachable = TNull
    /\ global_reachable = TNull
    /\ global_reachable_unordered = TNull
    /\ err = PL_ERROR_NONE
    /\ fault = "none"
    /\ op = NoOp
    /\ gc_pc = "idle"
    /\ head_index = 0
    /\ gc_i = 0
    /\ failures = 0
    /\ NoException

\* one operation on x and y
VecNext ==
    \/ \E fresh \in Fresh : Subset(1, 2, fresh)
    \/ \E fresh \in Fresh : SubsetExclude(1, 2, fresh)
    \/ \E fresh \in Fresh : RemoveByIndices(1, 2, fresh)
    \/ \E fresh \in Fresh : Copy(1, fresh)
    \/ \E fresh \in Fresh, stale \in Stale(2) : Equal(1, 2, fresh, stale)
    \/ \E fresh \in Fresh, stale \in Stale(2) : In(1, 2, fresh, stale)
    \/ \E fresh \in Fresh, dst \in Classes \ {PL_CLASS_LIST} :
          /\ heap[1].class # PL_CLASS_DOUBLE \/ dst = PL_CLASS_DOUBLE
          /\ heap[1].class \in {PL_CLASS_DOUBLE, PL_CLASS_LIST} \/ dst # PL_CLASS_DOUBLE
          /\ \E junk \in Junk(dst, 1) : AsClass(dst, 1, fresh, junk)

VecSpec == VecInit /\ [][VecNext]_vars

\* ------------------------------------------------------------------------
\* The Object Model operations on one object that has attributes: its
\* attribute field refers to the list (address 2) that set_attribute created
\* ------------------------------------------------------------------------
AttributedInit ==
    /\ \E class \in Classes, capacity \in ObjCapacities :
          \E data \in Seqs(Values(class), MaxObjLen) :
             /\ Len(data) <= capacity
             /\ heap = [a \in Addr |->
                          IF a = 1 THEN [class |-> class, capacity |-> capacity,
                                         data |-> data, attribute |-> 2]
                          ELSE IF a = 2 THEN [class |-> PL_CLASS_LIST, capacity |-> 2,
                                              data |-> <<>>, attribute |-> NULL]
                          ELSE Blank]
    /\ live = {1, 2}
    /\ held = {1}
    /\ global_table = [TNew EXCEPT !.data = <<1, 2>>]
    /\ global_directly_reachable = TNull
    /\ global_reachable = TNull
    /\ global_reachable_unordered = TNull
    /\ err = PL_ERROR_NONE
    /\ fault = "none"
    /\ op = NoOp
    /\ gc_pc = "idle"
    /\ head_index = 0
    /\ gc_i = 0
    /\ failures = 0
    /\ NoException

AttributedSpec == AttributedInit /\ [][ObjNext]_vars

\* ------------------------------------------------------------------------
\* Attributes of an object (src/pl_object.c): an object x (address 1), three
\* char objects used as names and as values (addresses 2, 3, 4; 2 and 3 hold
\* the same characters), and the three lists set_attribute creates on its
\* first call; the allocation of a new object never fails, the growth of a
\* list may
\* ------------------------------------------------------------------------
AttrAddr == 1..MaxAttrAddr
AttrNames == {2, 3, 4}

\* the inner loop of primitive_index_attribute from position j (1-based) on:
\* flag = flag && this_name[j] == input_array[j]
RECURSIVE FlagLoop(_, _, _, _)
FlagLoop(flag, this_name, input_array, j) ==
    IF j > Len(input_array) THEN flag
    ELSE FlagLoop(flag /\ this_name[j] = input_array[j], this_name, input_array, j + 1)

\* the outer loop of primitive_index_attribute from name i (0-based) on;
\* name_array points at the buffer of the name list but has the type of a
\* pointer to an object struct, so name_array[i] is not the i-th name:
\* junk[i + 1] is what the bytes read as its length and data hold; flag
\* starts at 0
RECURSIVE IndexLoop(_, _, _, _)
IndexLoop(num_name, input_array, junk, i) ==
    IF i >= num_name THEN -1
    ELSE IF junk[i + 1].length = Len(input_array)
            /\ FlagLoop(FALSE, junk[i + 1].data, input_array, 1)
    THEN i
    ELSE IndexLoop(num_name, input_array, junk, i + 1)

\* primitive_index_attribute(x, name)
primitive_index_attribute(hp, x, name, junk) ==
    IF name = NULL THEN [err |-> PL_ERROR_INVALID_NULL_POINTER, index |-> -1]
    ELSE IF type(hp[name].class) # PL_CLASS_CHAR
    THEN [err |-> PL_ERROR_INVALID_CLASS, index |-> -1]
    ELSE IF hp[x].attribute = NULL THEN [err |-> PL_ERROR_NONE, index |-> -1]
    ELSE [err |-> PL_ERROR_NONE,
          index |-> IndexLoop(Len(hp[hp[hp[x].attribute].data[1]].data),
                              hp[name].data, junk, 0)]

\* append(x, item); failing: the realloc of x's buffer fails
append(obj, item, failing) ==
    IF item = NULL THEN Outcome(obj, PL_ERROR_INVALID_NULL_POINTER, NULL)
    ELSE extend_outcome(obj, PL_CLASS_LIST, item, failing)

\* set_attribute's first step on an object without attributes: the
\* attribute list and, in it, the list of names and the list of values
init_attribute(w, x, fresh) ==
    LET r1 == primitive_new(w, PL_CLASS_LIST, 2, fresh[1])
        r2 == primitive_new(r1.w, PL_CLASS_LIST, 1, fresh[2])
        r3 == primitive_new(r2.w, PL_CLASS_LIST, 1, fresh[3])
    IN  [r3.w EXCEPT !.heap[x].attribute = fresh[1],
                     !.heap[fresh[1]].data = <<fresh[2], fresh[3]>>]

\* set_attribute without the handler's repair of the lengths
set_attribute_no_rollback(w, x, name, item, fresh, failing, junk) ==
    LET ix == primitive_index_attribute(w.heap, x, name, junk) IN
    IF ix.err # PL_ERROR_NONE THEN Result(w, ix.err, NULL)
    ELSE LET w1 == IF w.heap[x].attribute = NULL THEN init_attribute(w, x, fresh) ELSE w
             attribute_names == w1.heap[w1.heap[x].attribute].data[1]
             attributes == w1.heap[w1.heap[x].attribute].data[2]
             r1 == append(w1.heap[attribute_names], name, failing = "names")
             w2 == [w1 EXCEPT !.heap[attribute_names] = r1.obj]
             r2 == append(w2.heap[attributes], item, failing = "values")
         IN  IF r1.err # PL_ERROR_NONE THEN Result(w1, r1.err, NULL)
             ELSE Result([w2 EXCEPT !.heap[attributes] = r2.obj], r2.err, NULL)

\* set_attribute(x, name, item); failing names the list whose growth fails
set_attribute(w, x, name, item, fresh, failing, junk) ==
    LET ix == primitive_index_attribute(w.heap, x, name, junk) IN
    IF ix.err # PL_ERROR_NONE THEN Result(w, ix.err, NULL)
    ELSE IF ix.index # -1
    THEN \* ((pl_object *) attributes)[index] = item writes into the struct of
         \* the list of values, not into its buffer
         LET attributes == w.heap[w.heap[x].attribute].data[2] IN
         Result([w EXCEPT !.heap[attributes].class = item], PL_ERROR_NONE, NULL)
    ELSE LET w1 == IF w.heap[x].attribute = NULL THEN init_attribute(w, x, fresh) ELSE w
             attribute_names == w1.heap[w1.heap[x].attribute].data[1]
             attributes == w1.heap[w1.heap[x].attribute].data[2]
             r1 == append(w1.heap[attribute_names], name, failing = "names")
             w2 == [w1 EXCEPT !.heap[attribute_names] = r1.obj]
             r2 == append(w2.heap[attributes], item, failing = "values")
             smaller_length == IF Len(r1.obj.data) > Len(r2.obj.data)
                               THEN Len(r2.obj.data) ELSE Len(r1.obj.data)
         IN  IF r1.err # PL_ERROR_NONE THEN Result(w1, r1.err, NULL)
             ELSE IF r2.err # PL_ERROR_NONE
             THEN Result([w2 EXCEPT
                            !.heap[attribute_names].data = SubSeq(@, 1, smaller_length),
                            !.heap[attributes].data = SubSeq(@, 1, smaller_length)],
                         r2.err, NULL)
             ELSE Result([w2 EXCEPT !.heap[attributes] = r2.obj], PL_ERROR_NONE, NULL)

\* remove_attribute(x, name)
remove_attribute(w, x, name, junk) ==
    LET ix == primitive_index_attribute(w.heap, x, name, junk) IN
    IF ix.err # PL_ERROR_NONE THEN Result(w, ix.err, NULL)
    ELSE IF ix.index = -1 THEN Result(w, PL_ERROR_NONE, NULL)
    ELSE LET attribute_names == w.heap[w.heap[x].attribute].data[1]
             attributes == w.heap[w.heap[x].attribute].data[2]
         IN  Result([w EXCEPT
                       !.heap[attribute_names] = remove_outcome(@, ix.index, ix.index).obj,
                       !.heap[attributes] = remove_outcome(@, ix.index, ix.index).obj],
                    PL_ERROR_NONE, NULL)

\* has_attribute(x, name): ret is the element of the int object it returns
has_attribute(w, x, name, junk) ==
    LET ix == primitive_index_attribute(w.heap, x, name, junk) IN
    IF ix.err # PL_ERROR_NONE THEN Result(w, ix.err, NULL)
    ELSE Result(w, PL_ERROR_NONE, IF ix.index # -1 THEN 1 ELSE 0)

\* get_attribute(x, name): ret is the value found
get_attribute(w, x, name, junk) ==
    LET ix == primitive_index_attribute(w.heap, x, name, junk) IN
    IF ix.err # PL_ERROR_NONE THEN Result(w, ix.err, NULL)
    ELSE IF ix.index = -1 THEN Result(w, PL_ERROR_ATTRIBUTE_NOT_FOUND, NULL)
    ELSE Result(w, PL_ERROR_NONE,
                w.heap[w.heap[w.heap[x].attribute].data[2]].data[ix.index + 1])

\* the names stored for x
NameList(hp, x) ==
    IF hp[x].attribute = NULL THEN <<>> ELSE hp[hp[hp[x].attribute].data[1]].data

\* the values stored for x
ValueList(hp, x) ==
    IF hp[x].attribute = NULL THEN <<>> ELSE hp[hp[hp[x].attribute].data[2]].data

\* what the bytes that primitive_index_attribute reads as object structs may
\* hold
Junk32 == [1..MaxAttrs -> [length : 0..1, data : {<<>>, <<97>>}]]

\* an attribute operation ends with result r; when names are stored, the
\* lookup reads beyond the buffer of the name list, where the process may
\* stop instead
AttrApply(name, r) ==
    /\ Idle
    /\ \/ /\ err' = r.err
          /\ heap' = r.w.heap
          /\ live' = r.w.live
          /\ global_table' = r.w.table
          /\ op' = Call(name, r.ret)
          /\ UNCHANGED fault
       \/ /\ NameList(heap, 1) # <<>>
          /\ fault' = "buffer_overread"
          /\ op' = Call(name, NULL)
          /\ UNCHANGED <<err, heap, live, global_table>>
    /\ UNCHANGED <<held, global_directly_reachable, global_reachable,
                   global_reachable_unordered, gcpos, failures, errvars>>

\* fresh: where the three lists of the first call are allocated
SetAttr(name, item, failing, junk) ==
    /\ Len(NameList(heap, 1)) < MaxAttrs
    /\ \E fresh \in IF heap[1].attribute # NULL THEN {<<NULL, NULL, NULL>>}
                      ELSE {f \in [1..3 -> AttrAddr \ live] : f[1] < f[2] /\ f[2] < f[3]} :
          AttrApply("set_attribute", set_attribute(Now, 1, name, item, fresh, failing, junk))

RemoveAttr(name, junk) == AttrApply("remove_attribute", remove_attribute(Now, 1, name, junk))

HasAttr(name, junk) == AttrApply("has_attribute", has_attribute(Now, 1, name, junk))

\* get_attribute copies 128 bytes from the buffer of the name, which is
\* shorter, before it throws
GetAttr(name, junk) ==
    \/ AttrApply("get_attribute", get_attribute(Now, 1, name, junk))
    \/ /\ Idle
       /\ get_attribute(Now, 1, name, junk).err = PL_ERROR_ATTRIBUTE_NOT_FOUND
       /\ fault' = "buffer_overread"
       /\ op' = Call("get_attribute", NULL)
       /\ UNCHANGED <<heap, live, held, tables, err, gcpos, failures, errvars>>

AttrInit ==
    /\ heap = [a \in AttrAddr |->
                 CASE a = 1 -> VecObject(PL_CLASS_INT, <<5>>, 1)
                   [] a \in {2, 3} -> VecObject(PL_CLASS_CHAR, <<97>>, 1)
                   [] a = 4 -> VecObject(PL_CLASS_CHAR, <<98>>, 1)
                   [] OTHER -> Blank]
    /\ live = {1} \cup AttrNames
    /\ held = {1} \cup AttrNames
    /\ global_table = [TNew EXCEPT !.data = <<1, 2, 3, 4>>]
    /\ global_directly_reachable = TNull
    /\ global_reachable = TNull
    /\ global_reachable_unordered = TNull
    /\ err = PL_ERROR_NONE
    /\ fault = "none"
    /\ op = NoOp
    /\ gc_pc = "idle"
    /\ head_index = 0
    /\ gc_i = 0
    /\ failures = 0
    /\ NoException

AttrNext ==
    \/ \E name \in AttrNames, item \in AttrNames \cup {NULL},
          failing \in {"none", "names", "values"}, junk \in Junk32 :
          SetAttr(name, item, failing, junk)
    \/ \E name \in AttrNames, junk \in Junk32 : RemoveAttr(name, junk)
    \/ \E name \in AttrNames, junk \in Junk32 : HasAttr(name, junk)
    \/ \E name \in AttrNames, junk \in Junk32 : GetAttr(name, junk)

AttrSpec == AttrInit /\ [][AttrNext]_vars

\* ------------------------------------------------------------------------
\* The backtrace stack (src/pl_bt.c). Its push is written against an error
\* interface that src/pl_error.h no longer has: pl_error_expect(condition,
\* return type, code, format, ...) returns an optional value that carries
\* the error when the condition is false, which is what pl_bt_call tests
\* ------------------------------------------------------------------------

\* the frames pl_bt_make_frame builds at the call sites
BtFrames == {[file_name |-> "main.c", function_name |-> "f", line |-> 1],
             [file_name |-> "main.c", function_name |-> "g", line |-> 2]}

\* number of slots of file_name, function_name and line
BtSlots == PL_BT_MAX_ALLOWED_FRAME_NUM + PL_BT_EXTRA_FRAME_NUM

\* pop
pop(bt) ==
    IF bt.frame_count > 0
    THEN [frame_count |-> bt.frame_count - 1,
          frames |-> SubSeq(bt.frames, 1, bt.frame_count - 1)]
    ELSE bt

\* push(frame): the stack and the error code of the optional it returns
push(bt, frame) ==
    [bt |-> [frame_count |-> bt.frame_count + 1, frames |-> Append(bt.frames, frame)],
     err |-> IF bt.frame_count + 1 < PL_BT_MAX_ALLOWED_FRAME_NUM
             THEN PL_ERROR_NONE ELSE PL_ERROR_STACKOVERFLOW]

\* a backtrace operation has returned
BtReturned(name, bt, e) ==
    /\ global_bt' = bt
    /\ err' = e
    /\ op' = Call(name, NULL)
    /\ UNCHANGED <<heap, live, held, tables, fault, gcpos, failures,
                   pl_error_exception_frames, global_error_message, stack, process>>

\* the three arrays have BtSlots slots: a push on a full stack writes
\* beyond them
Push(frame) ==
    /\ Idle
    /\ IF global_bt.frame_count >= BtSlots
       THEN /\ fault' = "buffer_overflow"
            /\ op' = Call("push", NULL)
            /\ UNCHANGED <<heap, live, held, tables, err, gcpos, failures, errvars>>
       ELSE BtReturned("push", push(global_bt, frame).bt, push(global_bt, frame).err)

Pop ==
    /\ Idle
    /\ BtReturned("pop", pop(global_bt), PL_ERROR_NONE)

\* pl_bt_call up to the entry of the function it calls, or, when the push
\* failed, to its end: the function is not called and the frame is popped
BtCall(frame) ==
    /\ Idle
    /\ global_bt.frame_count < BtSlots
    /\ LET r == push(global_bt, frame) IN
       IF r.err = PL_ERROR_NONE THEN BtReturned("pl_bt_call", r.bt, r.err)
       ELSE BtReturned("pl_bt_call", pop(r.bt), r.err)

\* the second function name is used near the bottom of the stack only
BtNext ==
    \/ \E frame \in BtFrames :
          (frame.line = 1 \/ global_bt.frame_count < MaxBtVaried) /\ Push(frame)
    \/ Pop
    \/ \E frame \in BtFrames :
          (frame.line = 1 \/ global_bt.frame_count < MaxBtVaried) /\ BtCall(frame)

BtSpec == Init /\ [][BtNext]_vars

\* ------------------------------------------------------------------------
\* The variable table (src/pl_var.c) on top of the collector: a list of
\* three parallel arrays (frame numbers, names, objects) that init creates
\* and registers as directly reachable. The state starts after the first
\* init; names are C strings, here sequences of characters, never NULL
\* ------------------------------------------------------------------------

\* the four static pointers once init has run
global_var == [table |-> 1, frames |-> 2, strings |-> 3, objects |-> 4]

VarAddr == 1..MaxVarAddr
VarNames == {<<97>>, <<98>>}
VarFrames == 0..1

\* init without the registration of the table as directly reachable
init_unregistered(w, d) ==
    LET r1 == primitive_new(w, PL_CLASS_LIST, 3, global_var.table)
        r2 == primitive_new(r1.w, PL_CLASS_INT, 1, global_var.frames)
        r3 == primitive_new(r2.w, PL_CLASS_LIST, 1, global_var.strings)
        r4 == primitive_new(r3.w, PL_CLASS_LIST, 1, global_var.objects)
    IN  [w |-> [r4.w EXCEPT !.heap[global_var.table].data =
                               <<global_var.frames, global_var.strings, global_var.objects>>],
         d |-> d]

\* init on a table that does not exist yet: the world and the root table
\* it leaves
init(w, d) ==
    LET r1 == primitive_new(w, PL_CLASS_LIST, 3, global_var.table)
        r2 == primitive_new(r1.w, PL_CLASS_INT, 1, global_var.frames)
        r3 == primitive_new(r2.w, PL_CLASS_LIST, 1, global_var.strings)
        r4 == primitive_new(r3.w, PL_CLASS_LIST, 1, global_var.objects)
    IN  [w |-> [r4.w EXCEPT !.heap[global_var.table].data =
                               <<global_var.frames, global_var.strings, global_var.objects>>],
         d |-> table_record_object(init_table(d), global_var.table, FALSE).tab]

\* find's loop from position i (0-based) on
RECURSIVE FindVarLoop(_, _, _, _)
FindVarLoop(hp, name, frame, i) ==
    IF i >= Len(hp[global_var.strings].data) THEN -1
    ELSE LET this_string == hp[hp[global_var.strings].data[i + 1]]
             this_frame == hp[global_var.frames].data[i + 1]
         IN  IF /\ Len(name) = Len(this_string.data)
                /\ this_frame = frame
                /\ FlagLoop(TRUE, this_string.data, name, 1)
             THEN i
             ELSE FindVarLoop(hp, name, frame, i + 1)

\* find(name, frame)
find(hp, name, frame) ==
    IF frame < 0 THEN [err |-> PL_ERROR_INVALID_FRAME, position |-> -1]
    ELSE IF Len(name) = 0 THEN [err |-> PL_ERROR_INVALID_VARIABLE_NAME, position |-> -1]
    ELSE [err |-> PL_ERROR_NONE, position |-> FindVarLoop(hp, name, frame, 0)]

\* get(name, frame)
get(w, name, frame) ==
    LET f == find(w.heap, name, frame) IN
    IF f.err # PL_ERROR_NONE THEN Result(w, f.err, NULL)
    ELSE IF f.position < 0 THEN Result(w, PL_ERROR_VARIABLE_NOT_FOUND, NULL)
    ELSE Result(w, PL_ERROR_NONE, w.heap[global_var.objects].data[f.position + 1])

\* set(name, content, frame); fresh: where the name object is allocated;
\* failing names the array whose growth fails
set(w, name, content, frame, fresh, failing) ==
    LET f == find(w.heap, name, frame) IN
    IF f.err # PL_ERROR_NONE THEN Result(w, f.err, NULL)
    ELSE IF content = NULL THEN Result(w, PL_ERROR_INVALID_NULL_POINTER, NULL)
    ELSE IF f.position >= 0
    THEN Result([w EXCEPT !.heap[global_var.objects].data[f.position + 1] = content],
                PL_ERROR_NONE, NULL)
    ELSE LET r1 == extend_outcome(w.heap[global_var.frames], PL_CLASS_INT, frame,
                                  failing = "frames")
             w1 == [w EXCEPT !.heap[global_var.frames] = r1.obj]
             this_name == Filled(primitive_new(w1, PL_CLASS_CHAR, Len(name), fresh), name)
             r2 == append(this_name.w.heap[global_var.strings], fresh, failing = "strings")
             w2 == [this_name.w EXCEPT !.heap[global_var.strings] = r2.obj]
             r3 == append(w2.heap[global_var.objects], content, failing = "objects")
             w3 == [w2 EXCEPT !.heap[global_var.objects] = r3.obj]
             recovered(v) ==
                 [v EXCEPT !.heap[global_var.frames].data =
                              SubSeq(@, 1, Len(w.heap[global_var.frames].data)),
                           !.heap[global_var.strings].data =
                              SubSeq(@, 1, Len(w.heap[global_var.strings].data)),
                           !.heap[global_var.objects].data =
                              SubSeq(@, 1, Len(w.heap[global_var.objects].data))]
         IN  IF r1.err # PL_ERROR_NONE THEN Result(w, r1.err, NULL)
             ELSE IF r2.err # PL_ERROR_NONE THEN Result(recovered(this_name.w), r2.err, NULL)
             ELSE IF r3.err # PL_ERROR_NONE THEN Result(recovered(w2), r3.err, NULL)
             ELSE Result(w3, PL_ERROR_NONE, NULL)

\* delete_pos(position): the world it leaves; moved out of bounds when the
\* number of entries memmove is asked to move is negative, which as size_t
\* is more than any buffer holds
delete_pos(w, position) ==
    IF position = -1 THEN [w |-> w, fault |-> "none"]
    ELSE IF position = Len(w.heap[global_var.strings].data) - 1
    THEN [w |-> [w EXCEPT
                   !.heap[global_var.frames].data = SubSeq(@, 1, Len(@) - 1),
                   !.heap[global_var.strings].data = SubSeq(@, 1, Len(@) - 1),
                   !.heap[global_var.objects].data = SubSeq(@, 1, Len(@) - 1)],
          fault |-> "none"]
    ELSE IF Len(w.heap[global_var.frames].data) - position - 1 < 0
    THEN [w |-> w, fault |-> "buffer_overflow"]
    ELSE [w |-> [w EXCEPT
                   !.heap[global_var.frames].data = RemoveAt(@, position),
                   !.heap[global_var.strings].data = RemoveAt(@, position),
                   !.heap[global_var.objects].data = RemoveAt(@, position)],
          fault |-> "none"]

\* delete_frame's loop from index i (0-based) on: the entry it passes to
\* delete_pos is the frame number read at i
RECURSIVE DeleteFrameLoop(_, _, _)
DeleteFrameLoop(w, frame, i) ==
    IF i >= Len(w.heap[global_var.frames].data) THEN [w |-> w, fault |-> "none"]
    ELSE LET position == w.heap[global_var.frames].data[i + 1] IN
         IF position = frame
         THEN LET d == delete_pos(w, position) IN
              IF d.fault # "none" THEN d ELSE DeleteFrameLoop(d.w, frame, i)
         ELSE DeleteFrameLoop(w, frame, i + 1)

\* a call of the variable table has returned, or has stopped the process
VarReturned(name, w, e, ret, flt) ==
    /\ Idle
    /\ heap' = w.heap
    /\ live' = w.live
    /\ global_table' = w.table
    /\ err' = e
    /\ fault' = flt
    /\ op' = Call(name, ret)
    /\ UNCHANGED <<held, global_directly_reachable, global_reachable,
                   global_reachable_unordered, gcpos, failures, errvars>>

VarSet(name, content, frame, failing) ==
    /\ Len(heap[global_var.strings].data) < MaxVars
    /\ \E fresh \in VarAddr \ live :
          LET r == set(Now, name, content, frame, fresh, failing) IN
          VarReturned("set", r.w, r.err, NULL, "none")

VarGet(name, frame) ==
    LET r == get(Now, name, frame) IN VarReturned("get", r.w, r.err, r.ret, "none")

\* delete(name, frame)
VarDelete(name, frame) ==
    LET f == find(heap, name, frame)
        d == delete_pos(Now, f.position)
    IN  IF f.err # PL_ERROR_NONE THEN VarReturned("delete", Now, f.err, NULL, "none")
        ELSE VarReturned("delete", d.w, PL_ERROR_NONE, NULL, d.fault)

\* delete_frame(frame)
VarDeleteFrame(frame) ==
    LET d == DeleteFrameLoop(Now, frame, 0) IN
    IF frame < 0 THEN VarReturned("delete_frame", Now, PL_ERROR_INVALID_FRAME, NULL, "none")
    ELSE VarReturned("delete_frame", d.w, IF d.fault = "none" THEN PL_ERROR_NONE ELSE err,
                     NULL, d.fault)

VarInit ==
    /\ LET i == init(World([a \in VarAddr |-> Blank], {}, TNew), TNull) IN
          /\ heap = i.w.heap
          /\ live = i.w.live
          /\ global_table = i.w.table
          /\ global_directly_reachable = i.d
    /\ held = {}
    /\ global_reachable = TNull
    /\ global_reachable_unordered = TNull
    /\ err = PL_ERROR_NONE
    /\ fault = "none"
    /\ op = NoOp
    /\ gc_pc = "idle"
    /\ head_index = 0
    /\ gc_i = 0
    /\ failures = 0
    /\ NoException

\* the program allocates objects, puts them into lists and attributes, binds
\* them to names and collects
VarNext ==
    \/ \E class \in ValidClasses :
          /\ Cardinality(held) < MaxVars
          /\ NewObject(class, 1, 0) /\ Returned("mutator") /\ UNCHANGED failures
    \/ \E x \in {h \in held : Len(heap[h].data) < MaxLen}, item \in held :
          ExtendObject(x, item, 0) /\ Returned("mutator") /\ UNCHANGED failures
    \/ \E x \in {h \in held : heap[h].class = PL_CLASS_CHAR}, attribute \in held :
          SetAttribute(x, attribute) /\ Returned("mutator") /\ UNCHANGED failures
    \/ \E name \in VarNames, content \in held \cup {NULL}, frame \in VarFrames \cup {-1},
          failing \in {"none", "frames", "strings", "objects"} :
          VarSet(name, content, frame, failing)
    \/ \E name \in VarNames, frame \in VarFrames : VarGet(name, frame)
    \/ \E name \in VarNames, frame \in VarFrames : VarDelete(name, frame)
    \/ \E frame \in VarFrames \cup {-1} : VarDeleteFrame(frame)
    \/ GCStart(0) /\ Returned("garbage_collect") /\ UNCHANGED failures
    \/ GCVisit(0) /\ Returned("garbage_collect") /\ UNCHANGED failures
    \/ GCSweep(0) /\ Returned("garbage_collect") /\ UNCHANGED failures

VarSpec == VarInit /\ [][VarNext]_vars

\* ------------------------------------------------------------------------
\* Properties
\* ------------------------------------------------------------------------
Tracked == Range(global_table.data)
Queue == global_reachable_unordered.data
GCDone == gc_pc = "idle" /\ op.name = "garbage_collect"
NoDuplicates(s) == \A i, j \in 1..Len(s) : i # j => s[i] # s[j]
ValidClass(class) == class >= 0 /\ class < PL_NUM_CLASS
ValidCapacity(capacity) == capacity > 0 /\ capacity <= PL_OBJECT_MAX_CAPACITY
AllNull == \A k \in 1..4 : tables[k].st = "null"
AllLive == \A k \in 1..4 : tables[k].st = "live"

\* C1: when garbage_collect has returned, every object transitively reachable
\* from the directly-reachable set through non-NULL list elements and
\* attribute references is still allocated and is found in the allocation table.
C1_ReachableSurvives ==
    GCDone => \A a \in Closure :
                 a \in live /\ table_find_object(global_table.data, a) # -1

\* a collect has returned with one root keeping two further objects alive,
\* one of them through an attribute reference
C1_Witness ==
    /\ GCDone
    /\ Cardinality(Roots) = 1
    /\ Cardinality(Closure) = 3
    /\ Closure \subseteq live
    /\ \E a \in Closure : heap[a].attribute # NULL

\* C2: when garbage_collect has returned, every tracked object that is not
\* transitively reachable from the directly-reachable set has been freed and
\* removed from the allocation table, whatever the root set, the empty one
\* included.
C2_UnreachableFreed ==
    (GCDone /\ err = PL_ERROR_NONE) => (live \subseteq Closure /\ Tracked \subseteq Closure)

\* C3: update_reachable's loop terminates on every object graph, cyclic or not:
\* the queue never holds an object twice, so it is never longer than the number
\* of allocated objects, and every step of the loop moves (head_index, i)
\* strictly forward in lexicographic order while head_index stays within the queue.
C3_TraversalTerminates ==
    [][gc_pc = "bfs" =>
          /\ NoDuplicates(Queue')
          /\ Len(Queue') <= Cardinality(live)
          /\ gc_pc' = "bfs" =>
                /\ head_index' <= Len(Queue')
                /\ \/ head_index' > head_index
                   \/ head_index' = head_index /\ gc_i' > gc_i]_vars

\* the traversal has exhausted its queue on a graph in which two different
\* objects refer to each other and one list contains itself
C3_Witness ==
    /\ gc_pc = "bfs"
    /\ head_index = Len(Queue)
    /\ \E a, b \in Range(Queue) : a # b /\ b \in Succ(a) /\ a \in Succ(b)
    /\ \E a \in Range(Queue) : a \in Succ(a)

\* C4: kill, called while the allocation table exists, frees every tracked
\* object and the four tables and leaves the collector Uninitialized (the four
\* table pointers NULL, check_status 0), and no later call frees or reads
\* memory that was freed before.
C4_KillTearsDown ==
    /\ [][(op'.name = "kill" /\ global_table.st = "live" /\ Tracked \subseteq live) =>
             /\ fault' = "none"
             /\ err' = PL_ERROR_NONE
             /\ AllNull'
             /\ live' = {}
             /\ check_status' = 0]_vars
    /\ [](fault \notin {"double_free", "use_after_free"})

\* C5: new_object with a defined class and a capacity in (0, MAX] returns an
\* object of that class and capacity with length 0 and no attribute which the
\* allocation table's search finds; a defined class with a capacity outside
\* (0, MAX] raises INVALID_CAPACITY and an undefined class UNDEFINED_CLASS,
\* and neither allocates anything (no allocation failing).
C5_NewObject ==
    [][\A in \in NewObjectInputs :
          LET class == in[1]
              capacity == in[2]
          IN
          (op'.name = "new_object" /\ NewObject(class, capacity, 0)) =>
             IF ~ValidClass(class)
             THEN err' = PL_ERROR_UNDEFINED_CLASS /\ live' = live
             ELSE IF ~ValidCapacity(capacity)
             THEN err' = PL_ERROR_INVALID_CAPACITY /\ live' = live
             ELSE /\ err' = PL_ERROR_NONE
                  /\ \E object \in live' \ live :
                        /\ heap'[object] = [class |-> class, capacity |-> capacity,
                                            data |-> <<>>, attribute |-> NULL]
                        /\ table_find_object(global_table'.data, object) # -1]_vars

\* new_object has returned a list of the largest capacity that went into the middle of
\* an allocation table holding three objects
C5_Witness ==
    /\ op.name = "new_object"
    /\ err = PL_ERROR_NONE
    /\ op.ret # NULL
    /\ heap[op.ret].class = PL_CLASS_LIST
    /\ heap[op.ret].capacity = PL_OBJECT_MAX_CAPACITY
    /\ Len(global_table.data) = 3
    /\ global_table.data[2] = op.ret

\* C6: when recording the new object fails because the allocation table cannot
\* grow, new_object raises ALLOC_FAIL, the new object's memory is released (the
\* set of allocated objects is what it was) and the allocation table keeps its
\* contents, length and capacity.
C6_RecordFailureRollsBack ==
    [][\A in \in NewObjectInputs :
          (/\ op'.name = "new_object"
           /\ err' # PL_ERROR_NONE
           /\ ValidClass(in[1])
           /\ ValidCapacity(in[2])
           /\ NewObject(in[1], in[2], 3)) =>
             /\ err' = PL_ERROR_ALLOC_FAIL
             /\ live' = live
             /\ heap' = heap
             /\ global_table' = global_table]_vars

\* new_object has failed with ALLOC_FAIL on a full allocation table
C6_Witness ==
    /\ op.name = "new_object"
    /\ op.ret = NULL
    /\ err = PL_ERROR_ALLOC_FAIL
    /\ global_table.st = "live"
    /\ Len(global_table.data) = global_table.capacity
    /\ Tracked \subseteq live
    /\ live # Addr

\* C7: new_object with an undefined class or an invalid capacity, and the
\* root operations with a NULL object, raise their error and leave the set of
\* initialized tables, every table and check_status as they were.
C7_InvalidArgumentsNoSideEffects ==
    [][(\/ \E in \in NewObjectInputs :
              /\ ~ValidClass(in[1]) \/ ~ValidCapacity(in[2])
              /\ NewObject(in[1], in[2], 0)
        \/ DirectlyReachable(NULL, 0)
        \/ DirectlyUnreachable(NULL, 0)) =>
          /\ err' # PL_ERROR_NONE
          /\ tables' = tables
          /\ check_status' = check_status]_vars

\* C8: the root operations treat the directly-reachable table as a set:
\* directly_reachable(x) adds x and nothing else, and changes nothing when x is
\* already a root; directly_unreachable(x) removes x and nothing else, and
\* changes nothing when x is no root; the table never holds an object twice.
C8_RootSet ==
    [][\A x \in Addr :
          /\ (/\ op'.name = "directly_reachable"
              /\ fault' = "none"
              /\ DirectlyReachable(x, 0)) =>
                /\ Roots' = Roots \cup {x}
                /\ NoDuplicates(global_directly_reachable'.data)
                /\ x \in Roots =>
                      global_directly_reachable'.data = global_directly_reachable.data
          /\ (/\ op'.name = "directly_unreachable"
              /\ fault' = "none"
              /\ DirectlyUnreachable(x, 0)) =>
                /\ Roots' = Roots \ {x}
                /\ NoDuplicates(global_directly_reachable'.data)
                /\ x \notin Roots =>
                      global_directly_reachable'.data = global_directly_reachable.data]_vars

\* directly_unreachable has returned and left two of three objects as roots
C8_Witness ==
    /\ op.name = "directly_unreachable"
    /\ err = PL_ERROR_NONE
    /\ fault = "none"
    /\ Cardinality(Roots) = 2
    /\ Cardinality(held) = 3

\* C9: from the Uninitialized state the first allocation or root operation
\* initializes the four tables and check_status is 1 from then on until kill;
\* it is 0 while the collector is uninitialized and after kill.
C9_StatusFollowsInitialization ==
    /\ [][(/\ op'.name \in {"new_object", "directly_reachable", "directly_unreachable"}
           /\ err' = PL_ERROR_NONE /\ fault' = "none") =>
             (AllLive' /\ check_status' = 1)]_vars
    /\ [][(op'.name = "kill" /\ global_table.st = "live" /\ fault' = "none") =>
             check_status' = 0]_vars
    /\ [](AllNull => check_status = 0)

\* C10: when the final shrink of the allocation table fails, garbage_collect
\* raises ALLOC_FAIL with the unreachable objects freed and the allocation
\* table holding exactly the reachable objects at its previous capacity; when
\* an allocation fails before the sweep, nothing is freed and the allocation
\* table's contents are unchanged.
C10_CollectFailure ==
    /\ [][(GCSweep(1) /\ err' = PL_ERROR_ALLOC_FAIL /\ fault' = "none") =>
             /\ Range(global_table'.data) = Closure'
             /\ Len(global_table'.data) = Cardinality(Closure')
             /\ live' \subseteq Closure'
             /\ global_table'.capacity = global_table.capacity]_vars
    /\ [][((\E f \in 0..6 : GCStart(f)) \/ (\E f \in 0..2 : GCVisit(f))) =>
             /\ live' = live
             /\ global_table'.data = global_table.data]_vars


\* C11: a successful resize_object(x, capacity) with 0 < capacity <=
\* PL_OBJECT_MAX_CAPACITY leaves x with exactly that capacity, with length
\* min(previous length, capacity) and with the elements below the new length
\* unchanged; primitive shrink(x, capacity) with capacity >= x.capacity and
\* capacity other than the missing sentinel changes nothing and raises
\* nothing, and with the missing sentinel it raises INVALID_NA and changes
\* nothing
C11_ResizeAndShrink ==
    [][/\ op'.name = "resize_object" =>
            \A x \in held, capacity \in CapacityInputs, f \in 0..1 :
               ( /\ ResizeObject(x, capacity, f)
                 /\ 0 < capacity /\ capacity <= PL_OBJECT_MAX_CAPACITY
                 /\ err' = PL_ERROR_NONE )
               => /\ heap'[x].capacity = capacity
                  /\ Len(heap'[x].data) =
                        IF Len(heap[x].data) < capacity THEN Len(heap[x].data) ELSE capacity
                  /\ \A k \in 1..Len(heap'[x].data) : heap'[x].data[k] = heap[x].data[k]
                  /\ heap'[x].class = heap[x].class
       /\ op'.name = "primitive_shrink" =>
            \A x \in held, capacity \in CapacityInputs, f \in 0..1 :
               ( /\ PrimitiveShrink(x, capacity, f)
                 /\ capacity >= heap[x].capacity )
               => /\ heap' = heap
                  /\ err' = IF is_na(capacity) THEN PL_ERROR_INVALID_NA ELSE PL_ERROR_NONE
      ]_vars

\* a resize_object that succeeded and left the object full at a capacity no
\* object starts with
C11_Witness ==
    /\ op.name = "resize_object"
    /\ err = PL_ERROR_NONE
    /\ \E x \in held : /\ heap[x].capacity = MaxObjLen - 1
                       /\ Len(heap[x].data) = heap[x].capacity

\* C11 as stated: every primitive shrink(x, capacity) with capacity >=
\* x.capacity changes nothing and raises nothing
C11_ShrinkAlwaysNoOp ==
    [][op'.name = "primitive_shrink" =>
         \A x \in held, capacity \in CapacityInputs, f \in 0..1 :
            ( /\ PrimitiveShrink(x, capacity, f)
              /\ capacity >= heap[x].capacity )
            => /\ heap' = heap
               /\ err' = PL_ERROR_NONE
      ]_vars

\* C12: after every successful reserve_object(x, c) the capacity of x is at
\* least c and at least what it was, so that a later reserve with a larger
\* request does not decrease it either; the length and the elements are
\* unchanged, and nothing at all changes when the capacity was already >= c
C12_ReserveMonotone ==
    [][op'.name = "reserve_object" =>
         \A x \in held, capacity \in CapacityInputs, f \in 0..1 :
            ( /\ ReserveObject(x, capacity, f)
              /\ err' = PL_ERROR_NONE )
            => /\ heap'[x].capacity >= capacity
               /\ heap'[x].capacity >= heap[x].capacity
               /\ heap'[x].data = heap[x].data
               /\ heap'[x].class = heap[x].class
               /\ heap[x].capacity >= capacity => heap' = heap
               /\ \A c2 \in CapacityInputs :
                     LET r == reserve_outcome(heap'[x], c2, FALSE) IN
                     (capacity <= c2 /\ r.err = PL_ERROR_NONE)
                     => /\ r.obj.capacity >= heap'[x].capacity
                        /\ r.obj.capacity >= c2
      ]_vars

\* a reserve_object that succeeded by growing a non-empty object past the
\* threshold of linear growth
C12_Witness ==
    /\ op.name = "reserve_object"
    /\ err = PL_ERROR_NONE
    /\ \E x \in held : /\ heap[x].capacity = 2 * threshold
                       /\ Len(heap[x].data) > 0

\* C13: every live object satisfies 0 <= length <= capacity <=
\* PL_OBJECT_MAX_CAPACITY after any sequence of Object Model operations,
\* whether they return or raise
C13_LengthWithinCapacity ==
    fault = "none" =>
       \A x \in live : /\ 0 <= Len(heap[x].data)
                       /\ Len(heap[x].data) <= heap[x].capacity
                       /\ heap[x].capacity <= PL_OBJECT_MAX_CAPACITY

\* C19: primitive set_T(x, index, item) with a non-missing index outside
\* [0, x.length), and set_by_indices(x, n, indices, array) with n > 0 and a
\* non-missing index outside [0, x.length) among the n indices, raise
\* INDEX_OUT_OF_BOUND and leave x unchanged, also when other indices of the
\* same call are valid: no such call ends in any other way
C19_GuardBeforeMutate ==
    [][/\ (op'.name = "primitive_set"
           /\ ~(err' = PL_ERROR_INDEX_OUT_OF_BOUND /\ heap' = heap)) =>
            \A x \in held, T \in Classes, index \in IndexInputs :
               \A item \in Values(T) :
                  ( /\ index # PL_INT_NA
                    /\ (index < 0 \/ index >= Len(heap[x].data)) )
                  => ~PrimitiveSet(x, T, index, item)
       /\ (op'.name = "primitive_set_by_indices"
           /\ ~(err' = PL_ERROR_INDEX_OUT_OF_BOUND /\ heap' = heap)) =>
            \A x \in held, indices \in Seqs(IndexInputs, 2) :
               \A item \in Values(heap[x].class) :
                  ( /\ Len(indices) > 0
                    /\ \E i \in 1..Len(indices) :
                          /\ indices[i] # PL_INT_NA
                          /\ (indices[i] < 0 \/ indices[i] >= Len(heap[x].data)) )
                  => ~PrimitiveSetByIndices(x, Len(indices), indices,
                                            [k \in 1..Len(indices) |-> item])
      ]_vars

\* a set_by_indices that raised INDEX_OUT_OF_BOUND on an object whose
\* elements are not all alike
C19_Witness ==
    /\ op.name = "primitive_set_by_indices"
    /\ err = PL_ERROR_INDEX_OUT_OF_BOUND
    /\ \E x \in held : /\ Len(heap[x].data) = MaxObjLen
                       /\ heap[x].data[1] # heap[x].data[MaxObjLen]

\* C20: for every class T, with the missing sentinel PL_INT_NA as index,
\* set_T(x, NA, item) leaves x unchanged and raises nothing, and extract_T(x, NA)
\* on an object x of class T raises nothing, leaves x unchanged and returns
\* the missing sentinel of class T whatever x holds
C20_MissingIndex ==
    [][/\ op'.name = "primitive_set" =>
            \A x \in held, T \in Classes :
               \A item \in Values(T) :
                  PrimitiveSet(x, T, PL_INT_NA, item)
                  => /\ err' = PL_ERROR_NONE
                     /\ heap' = heap
       /\ op'.name = "primitive_extract" =>
            \A x \in held :
               LET T == type(heap[x].class) IN
               ( /\ PrimitiveExtract(x, T, PL_INT_NA)
                 /\ op'.ret = extract_outcome(heap[x], T, PL_INT_NA).ret )
               => /\ err' = PL_ERROR_NONE
                  /\ heap' = heap
                  /\ op'.ret = NAOf(T)
      ]_vars

\* an extract that returned the sentinel of doubles from an object none of
\* whose elements is missing
C20_Witness ==
    \E x \in held :
       /\ heap[x].class = PL_CLASS_DOUBLE
       /\ op.name = "primitive_extract"
       /\ err = PL_ERROR_NONE
       /\ op.ret = PL_DOUBLE_NA
       /\ Len(heap[x].data) > 0
       /\ \A k \in 1..Len(heap[x].data) : heap[x].data[k] # PL_DOUBLE_NA

\* the innermost try scope whose body is running: its place in the control
\* stack, 0 when there is none
InnermostActive(stk) ==
    LET bodies == {i \in 1..Len(stk) : stk[i].kind = "body"} IN
    IF bodies = {} THEN 0 ELSE CHOOSE i \in bodies : \A j \in bodies : j <= i

\* the handler control is inside of, directly or through calls: its place in
\* the control stack, 0 when there is none
InHandler(stk) ==
    LET handlers == {i \in 1..Len(stk) : /\ stk[i].kind = "handler"
                                         /\ \A j \in (i + 1)..Len(stk) : stk[j].kind = "call"}
    IN  IF handlers = {} THEN 0 ELSE CHOOSE i \in handlers : TRUE

\* C14: a throw with a code other than PL_ERROR_NONE while a try scope is
\* active lands in the catch of the innermost active try scope: the rest of
\* the body and every call made from it are gone, the handler begins with
\* the thrown code as the current error, and the scopes around it are as
\* they were; a handler begins in no other way than at the innermost active
\* scope with a code other than PL_ERROR_NONE
C14_ThrowReachesInnermostCatch ==
    [][/\ \A error \in ErrorCodes \ {PL_ERROR_NONE}, site \in Sites, format \in Formats :
            ( /\ InnermostActive(stack) # 0
              /\ Throw(error, site, format) )
            => LET t == InnermostActive(stack) IN
               /\ Len(stack') = t
               /\ stack'[t].kind = "handler"
               /\ SubSeq(stack', 1, t - 1) = SubSeq(stack, 1, t - 1)
               /\ pl_error_exception_frames'.error = error
               /\ process' = process
       /\ \A i \in 1..Len(stack') :
            ( /\ stack'[i].kind = "handler"
              /\ (i > Len(stack) \/ stack[i].kind # "handler") )
            => /\ i = InnermostActive(stack)
               /\ i = Len(stack')
               /\ pl_error_exception_frames'.error # PL_ERROR_NONE
      ]_vars

\* a handler is running with the thrown code inside a try body that is still
\* running
C14_Witness ==
    /\ Len(stack) = 2
    /\ stack[1].kind = "body"
    /\ stack[2].kind = "handler"
    /\ stack[2].direct
    /\ pl_error_exception_frames.error = PL_ERROR_ALLOC_FAIL
    /\ process.status = "running"

\* C15: the active exception target is always the innermost try scope whose
\* body is running, NULL when there is none, and every scope on the control
\* stack holds as previous target the one that was active when it was
\* entered: completing a try/catch pair, by the end of the body or by a
\* caught throw before the handler runs, restores the targets in LIFO order
C15_TargetRestored ==
    /\ pl_error_exception_frames.frame = InnermostActive(stack)
    /\ \A i \in 1..Len(stack) :
          stack[i].previous_frame = InnermostActive(SubSeq(stack, 1, i - 1))
    /\ (\A i \in 1..Len(stack) : stack[i].kind # "body")
          => pl_error_exception_frames.frame = NULL

\* the handler of the innermost of three nested scopes runs with the second
\* scope as target
C15_Witness ==
    /\ Len(stack) = 3
    /\ stack[1].kind = "body"
    /\ stack[2].kind = "body"
    /\ stack[3].kind = "handler"
    /\ pl_error_exception_frames.frame = 2

\* C16: a throw or rethrow while no try scope is active prints the stored
\* message and ends the process with a failure status, and the process ends
\* in no other way: never while a try scope is active
C16_UncaughtTerminates ==
    [][/\ \A error \in ErrorCodes, site \in Sites, format \in Formats :
            ( /\ InnermostActive(stack) = 0
              /\ Throw(error, site, format) )
            => /\ process'.status = "exited"
               /\ process'.code = EXIT_FAILURE
               /\ process'.out = global_error_message'
       /\ \A site \in Sites :
            ( /\ InnermostActive(stack) = 0
              /\ Rethrow(site) )
            => /\ process'.status = "exited"
               /\ process'.code = EXIT_FAILURE
               /\ process'.out = global_error_message
       /\ process' # process
            => /\ process.status = "running"
               /\ InnermostActive(stack) = 0
               /\ process'.status = "exited"
      ]_vars

\* the process has exited with a failure status and printed a message
C16_Witness ==
    /\ process.status = "exited"
    /\ process.code = EXIT_FAILURE
    /\ process.out # <<>>
    /\ process.out = global_error_message

C18_HandledErrorStaysStored ==
    [][/\ HandlerEnd
            => /\ stack' = SubSeq(stack, 1, Len(stack) - 1)
               /\ pl_error_exception_frames' = pl_error_exception_frames
               /\ process' = process
               /\ stack[Len(stack)].direct
                    => /\ pl_error_exception_frames'.error = stack[Len(stack)].caught
                       /\ pl_error_exception_frames'.error # PL_ERROR_NONE
       /\ ( /\ pl_error_exception_frames.error # PL_ERROR_NONE
            /\ pl_error_exception_frames'.error = PL_ERROR_NONE )
            => \/ TryEnter
               \/ BodyExit
               \/ \E site \in Sites, format \in Formats : Throw(PL_ERROR_NONE, site, format)
      ]_vars

\* every handler has finished, the process runs on and the stored code is
\* still that of the error handled
C18_Witness ==
    /\ stack = <<>>
    /\ process.status = "running"
    /\ pl_error_exception_frames.error = PL_ERROR_ALLOC_FAIL
    /\ global_error_message # <<>>

\* C18 as stated: from the end of a handler that did not rethrow the stored
\* code reads PL_ERROR_NONE
C18_HandlerEndClears ==
    [][HandlerEnd => pl_error_exception_frames'.error = PL_ERROR_NONE]_vars

\* C21: set_T, extract_T and extend_T applied to an object whose class is
\* not T raise INVALID_CLASS whatever the index is (in range, out of range
\* or missing) and leave the object unchanged
C21_WrongClassRaisesInvalidClass ==
    [][/\ (op'.name = "primitive_set"
           /\ ~(err' = PL_ERROR_INVALID_CLASS /\ heap' = heap)) =>
            \A x \in held, index \in IndexInputs :
               \A T \in Classes \ {type(heap[x].class)} :
                  \A item \in Values(T) : ~PrimitiveSet(x, T, index, item)
       /\ (op'.name = "primitive_extract"
           /\ ~(err' = PL_ERROR_INVALID_CLASS /\ heap' = heap)) =>
            \A x \in held, index \in IndexInputs :
               \A T \in Classes \ {type(heap[x].class)} : ~PrimitiveExtract(x, T, index)
       /\ (op'.name = "primitive_extend"
           /\ ~(err' = PL_ERROR_INVALID_CLASS /\ heap' = heap)) =>
            \A x \in held, f \in 0..1 :
               \A T \in Classes \ {type(heap[x].class)} :
                  \A item \in Values(T) : ~PrimitiveExtend(x, T, item, f)
      ]_vars

\* the indices of an int object y name positions of x or are missing
IndicesInRange(xo, yo) ==
    /\ type(yo.class) = PL_CLASS_INT
    /\ \A i \in 1..Len(yo.data) : is_na(yo.data[i]) \/ index_in_bound(xo, yo.data[i])

\* C22: subset(x, indices) with every non-missing index inside [0, x.length)
\* returns a new tracked object of x's class, as long as indices, whose i-th
\* element is the sentinel of the class when indices[i] is missing and
\* x[indices[i]] otherwise; for no index at all the object has length 0 and a
\* capacity of at least 1; x is unchanged
C22_SubsetSelects ==
    [][(op'.name = "subset" /\ IndicesInRange(heap[1], heap[2])) =>
          LET x == heap[1]
              indices == heap[2].data
              object == op'.ret
          IN  /\ err' = PL_ERROR_NONE
              /\ object \in live' \ live
              /\ object \in Range(global_table'.data)
              /\ heap'[object].class = x.class
              /\ heap'[object].capacity >= 1
              /\ Len(heap'[object].data) = Len(indices)
              /\ \A i \in 1..Len(indices) :
                    heap'[object].data[i] = IF is_na(indices[i]) THEN NAOf(type(x.class))
                                            ELSE x.data[indices[i] + 1]
              /\ heap'[1] = x
      ]_vars

\* a subset that put the sentinel of char where the index was missing and the
\* second element of x where the index was 1
C22_Witness ==
    /\ op.name = "subset"
    /\ err = PL_ERROR_NONE
    /\ heap[2].data = <<PL_INT_NA, 1>>
    /\ heap[1].class = PL_CLASS_CHAR
    /\ heap[1].data = <<PL_CHAR_NA, 97>>
    /\ op.ret \in live
    /\ heap[op.ret].data = <<PL_CHAR_NA, 97>>

\* C23: subset(x, indices) and subset_exclude(x, indices) with an int object
\* indices that holds at least one non-missing index outside [0, x.length)
\* raise INDEX_OUT_OF_BOUND and create no object: the allocation table, the
\* allocated objects and their contents are after the call what they were
\* before it
C23_OutOfRangeCreatesNothing ==
    [][(/\ op'.name \in {"subset", "subset_exclude"}
        /\ type(heap[2].class) = PL_CLASS_INT
        /\ \E i \in 1..Len(heap[2].data) :
              ~is_na(heap[2].data[i]) /\ ~index_in_bound(heap[1], heap[2].data[i])) =>
          /\ err' = PL_ERROR_INDEX_OUT_OF_BOUND
          /\ op'.ret = NULL
          /\ global_table' = global_table
          /\ live' = live
          /\ heap' = heap
      ]_vars

\* a subset_exclude of an object of two elements that raised
\* INDEX_OUT_OF_BOUND for a missing index followed by an index beyond the end
C23_Witness ==
    /\ op.name = "subset_exclude"
    /\ err = PL_ERROR_INDEX_OUT_OF_BOUND
    /\ Len(heap[1].data) = MaxVecLen
    /\ heap[2].class = PL_CLASS_INT
    /\ heap[2].data = <<PL_INT_NA, CHAR_MAX + 1>>

\* the object an operation returned is new, of the class of xo, holds data,
\* has no attribute and is not x
FreshCopy(object, xo, data) ==
    /\ object \in live' \ live
    /\ object # 1
    /\ heap'[object].class = xo.class
    /\ heap'[object].data = data
    /\ heap'[object].attribute = NULL

\* C24: for every object x of any length, length 0 included,
\* subset(x, [0, 1, ..., x.length - 1]) and copy(x) both succeed and return a
\* new object of x's class and length, elementwise equal to x, with no
\* attribute and a buffer of its own
C24_SubsetCopyRoundTrip ==
    [][/\ op'.name = "copy" =>
            /\ err' = PL_ERROR_NONE
            /\ FreshCopy(op'.ret, heap[1], heap[1].data)
       /\ (/\ op'.name = "subset"
           /\ type(heap[2].class) = PL_CLASS_INT
           /\ heap[2].data = [i \in 1..Len(heap[1].data) |-> i - 1]) =>
            /\ err' = PL_ERROR_NONE
            /\ FreshCopy(op'.ret, heap[1], heap[1].data)
      ]_vars

\* the elements of data, from position k on, at the positions (0-based) that
\* no index names, in their order
RECURSIVE KeepFrom(_, _, _)
KeepFrom(data, indices, k) ==
    IF k > Len(data) THEN <<>>
    ELSE (IF \E i \in 1..Len(indices) : indices[i] = k - 1 THEN <<>> ELSE <<data[k]>>)
         \o KeepFrom(data, indices, k + 1)

\* C25: subset_exclude(x, indices) with all non-missing indices in range
\* returns a new object holding exactly the elements of x at the positions
\* that no index names, in their order, whether indices is empty, names
\* every position or x has length 0; remove_by_indices leaves x with those
\* contents and that length
C25_ExcludeKeepsTheRest ==
    [][/\ (op'.name = "subset_exclude" /\ IndicesInRange(heap[1], heap[2])) =>
            /\ err' = PL_ERROR_NONE
            /\ FreshCopy(op'.ret, heap[1], KeepFrom(heap[1].data, heap[2].data, 1))
            /\ heap'[1] = heap[1]
       /\ (op'.name = "remove_by_indices" /\ IndicesInRange(heap[1], heap[2])) =>
            /\ err' = PL_ERROR_NONE
            /\ heap'[1] = [heap[1] EXCEPT !.data = KeepFrom(heap[1].data, heap[2].data, 1)]
      ]_vars

\* the element of yo that equal(x, y) is to compare x[i] with (i 1-based):
\* y[i] for equal lengths, y[0] for a y of length 1
Compared(yo, i) == IF Len(yo.data) = 1 THEN yo.data[1] ELSE yo.data[i]

\* C26: equal(x, y) on operands of the same type raises INCOMPATIBLE_LENGTH
\* and creates no object unless y.length = 1 or y.length = x.length; otherwise
\* it returns a new INT object of x's length whose i-th element is 1 when
\* x[i] equals the element of y it is compared with and 0 when it differs
\* (neither of the two being missing)
C26_EqualBroadcast ==
    [][(op'.name = "equal" /\ type(heap[1].class) = type(heap[2].class)) =>
          LET x == heap[1]
              y == heap[2]
              T == type(x.class)
              object == op'.ret
          IN  IF ~(Len(y.data) = 1 \/ Len(y.data) = Len(x.data))
              THEN /\ err' = PL_ERROR_INCOMPATIBLE_LENGTH
                   /\ live' = live
                   /\ global_table' = global_table
              ELSE /\ err' = PL_ERROR_NONE
                   /\ object \in live' \ live
                   /\ heap'[object].class = PL_CLASS_INT
                   /\ Len(heap'[object].data) = Len(x.data)
                   /\ \A i \in 1..Len(x.data) :
                         (~elem_is_na(T, x.data[i]) /\ ~elem_is_na(T, Compared(y, i)))
                         => heap'[object].data[i] =
                               IF elem_equal(T, x.data[i], Compared(y, i)) THEN 1 ELSE 0
      ]_vars

\* C27: in equal(x, y) on char, int or long operands of compatible lengths,
\* x not the shorter one, every element i of the result is the sentinel of int when x[i] is missing
\* or the element of y it is compared with is missing (y[i] for equal
\* lengths, y[0] for a y of length 1), and no element of y at or beyond
\* y.length is read
C27_EqualPropagatesMissing ==
    [][(/\ op'.name = "equal"
        /\ type(heap[1].class) = type(heap[2].class)
        /\ type(heap[1].class) \in {PL_CLASS_CHAR, PL_CLASS_INT, PL_CLASS_LONG}
        /\ (Len(heap[2].data) = 1 \/ Len(heap[2].data) = Len(heap[1].data))
        /\ Len(heap[1].data) >= Len(heap[2].data)) =>
          LET x == heap[1]
              y == heap[2]
              T == type(x.class)
              object == op'.ret
          IN  /\ equal_reads_beyond(x, y) = {}
              /\ fault' = "none"
              /\ err' = PL_ERROR_NONE
              /\ object \in live' \ live
              /\ Len(heap'[object].data) = Len(x.data)
              /\ \A i \in 1..Len(x.data) :
                    (elem_is_na(T, x.data[i]) \/ elem_is_na(T, Compared(y, i)))
                    => heap'[object].data[i] = PL_INT_NA
      ]_vars

\* in(x, y) as membership: element i is 1 when x[i] equals some y[j] with
\* 0 <= j < y.length and 0 otherwise; with missing TRUE a missing x[i] also
\* equals a missing y[j], otherwise a NaN equals nothing
Membership(T, xo, yo, missing) ==
    [i \in 1..Len(xo.data) |->
        IF \E j \in 1..Len(yo.data) :
              \/ elem_equal(T, xo.data[i], yo.data[j])
              \/ missing /\ elem_is_na(T, xo.data[i]) /\ elem_is_na(T, yo.data[j])
        THEN 1 ELSE 0]

\* C28: in(x, y) on x and y of the same type and of any lengths returns a new
\* INT object as long as x whose i-th element is 1 when x[i] equals some
\* element y[j] with 0 <= j < y.length and 0 otherwise, under either reading
\* of "equals" for two NaN; nothing of y at or beyond y.length is read
C28_InMembership ==
    [][(op'.name = "in" /\ type(heap[1].class) = type(heap[2].class)) =>
          LET x == heap[1]
              y == heap[2]
              T == type(x.class)
              object == op'.ret
          IN  /\ in_reads_beyond(x, y) = {}
              /\ fault' = "none"
              /\ err' = PL_ERROR_NONE
              /\ object \in live' \ live
              /\ heap'[object].class = PL_CLASS_INT
              /\ heap'[object].data \in {Membership(T, x, y, FALSE), Membership(T, x, y, TRUE)}
      ]_vars

\* the number an element v of type T stands for, as limbs
Num(T, v) == IF T = PL_CLASS_LONG THEN v ELSE to_long(v)

\* the number n is within the range of the type dst
Fits(dst, n) ==
    CASE dst = PL_CLASS_LONG -> TRUE
      [] dst = PL_CLASS_INT -> n[1] = 0 /\ n[2] < INT_LIMBS
      [] dst = PL_CLASS_CHAR -> n[1] = 0 /\ n[2] = 0 /\ n[3] <= CHAR_MAX

\* the element of type dst that stands for the number n
FromNum(dst, n) == IF dst = PL_CLASS_LONG THEN n ELSE n[2] * Limb + n[3]

\* what converting the element v of type T to the type dst is to give
Converted(T, dst, v) ==
    IF v = NAOf(T) \/ ~Fits(dst, Num(T, v)) THEN NAOf(dst)
    ELSE FromNum(dst, Num(T, v))

\* C29: for a char, int or long source x of any length, length 0 included,
\* as_char, as_int and as_long return a new object of the destination class
\* as long as x in which element i is the sentinel of the destination when
\* x[i] is the sentinel of the source or outside the range of the
\* destination, and the same number otherwise
C29_ConvertIntegerLike ==
    [][(/\ op'.name = "as_class"
        /\ type(heap[1].class) \in {PL_CLASS_CHAR, PL_CLASS_INT, PL_CLASS_LONG}) =>
          LET x == heap[1]
              T == type(x.class)
              object == op'.ret
          IN  /\ err' = PL_ERROR_NONE
              /\ object \in live' \ live
              /\ heap'[object].class \in {PL_CLASS_CHAR, PL_CLASS_INT, PL_CLASS_LONG}
              /\ Len(heap'[object].data) = Len(x.data)
              /\ \A i \in 1..Len(x.data) :
                    heap'[object].data[i] =
                       Converted(T, heap'[object].class, x.data[i])
      ]_vars

\* C30: as_char, as_int, as_long and as_double applied to a list (here one
\* that holds at least one element) raise INVALID_CLASS and create no object: the allocation table, the allocated
\* objects and their contents are after the call what they were before it
C30_ListSourceCreatesNothing ==
    [][(/\ op'.name = "as_class"
        /\ type(heap[1].class) = PL_CLASS_LIST
        /\ Len(heap[1].data) > 0) =>
          /\ err' = PL_ERROR_INVALID_CLASS
          /\ op'.ret = NULL
          /\ global_table' = global_table
          /\ live' = live
          /\ heap' = heap
      ]_vars

\* C40: equal recycles the shorter operand whichever side it is on: for x of
\* length 1 and y of the same type and of any length n >= 1, equal(x, y)
\* returns what equal(y, x) returns (for some content of the memory that
\* equal(y, x) reads beyond x), and neither x nor y is modified
C40_EqualCommutes ==
    [][(/\ op'.name = "equal"
        /\ type(heap[1].class) = type(heap[2].class)
        /\ Len(heap[1].data) = 1
        /\ Len(heap[2].data) >= 1) =>
          /\ fault' = "none"
          /\ err' = PL_ERROR_NONE
          /\ op'.ret \in live' \ live
          /\ heap'[1] = heap[1]
          /\ heap'[2] = heap[2]
          /\ \E fresh \in Fresh, stale \in Stale(1) :
                LET r == equal(Now, 2, 1, fresh, stale) IN
                /\ r.err = PL_ERROR_NONE
                /\ heap'[op'.ret].data = r.w.heap[r.ret].data
      ]_vars

\* the first power of two from p on that is above (strict) or at least
\* (not strict) c
RECURSIVE PowerFor(_, _, _)
PowerFor(p, c, strict) ==
    IF p > c \/ (~strict /\ p = c) THEN p ELSE PowerFor(2 * p, c, strict)

\* the first value of 1, 2, 4, ..., t, 2t, 3t, ... that is above (strict) or
\* at least (not strict) c
GrowthFor(t, c, strict) ==
    IF c < t \/ (~strict /\ c = t) THEN PowerFor(1, c, strict)
    ELSE IF strict \/ c % t # 0 THEN t * (c \div t + 1)
    ELSE c

\* C36 as stated: when reserve_object grows x, the new capacity is the first
\* value of the sequence that starts from 1, doubles while below 2^16 (half
\* of the model's threshold) and adds 2^16 thereafter that covers the
\* request
C36_GrowthCoversRequest ==
    [][(op'.name = "reserve_object" /\ err' = PL_ERROR_NONE /\ heap' # heap) =>
         \A x \in held, capacity \in CapacityInputs :
            ReserveObject(x, capacity, 0)
            => heap'[x].capacity = GrowthFor(threshold \div 2, capacity, FALSE)
      ]_vars

\* C36, amended: when reserve_object grows x, the new capacity is the first
\* value of the sequence that starts from 1, doubles while below
\* 2 << (bits per int / 2) = 2^17 and adds 2^17 thereafter that is strictly
\* above the request; it depends on the request only, not on the capacity x
\* had
C36_GrowthPolicy ==
    [][(op'.name = "reserve_object" /\ err' = PL_ERROR_NONE /\ heap' # heap) =>
         \A x \in held, capacity \in CapacityInputs :
            ReserveObject(x, capacity, 0)
            => heap'[x].capacity = GrowthFor(threshold, capacity, TRUE)
      ]_vars

\* a reserve_object that left an object of at most one element with twice
\* the threshold as its capacity, which of the requests tried only the one
\* for exactly the threshold does
C36_Witness ==
    /\ op.name = "reserve_object"
    /\ err = PL_ERROR_NONE
    /\ \E x \in held : /\ heap[x].capacity = 2 * threshold
                       /\ Len(heap[x].data) <= 1

\* C37: reserve_object(x, capacity) with 0 < capacity <=
\* PL_OBJECT_MAX_CAPACITY, the capacities new_object and resize_object
\* accept, is never rejected with INVALID_CAPACITY
C37_ValidReserveAccepted ==
    [][(op'.name = "reserve_object" /\ err' = PL_ERROR_INVALID_CAPACITY) =>
         \A x \in held, capacity \in CapacityInputs, f \in 0..1 :
            (capacity > 0 /\ capacity <= PL_OBJECT_MAX_CAPACITY)
            => ~ReserveObject(x, capacity, f)
      ]_vars

\* the array d is strictly increasing
StrictlyIncreasing(d) == \A i \in 1..(Len(d) - 1) : d[i] < d[i + 1]

\* table_find_object on d gives the index of x where x is in d and -1
\* where it is not
FindsExactly(d) ==
    \A x \in Addr :
       LET i == table_find_object(d, x) IN
       IF x \in Range(d) THEN i >= 0 /\ i < Len(d) /\ d[i + 1] = x ELSE i = -1

\* C38: after every operation of the collector the allocation table and the
\* directly-reachable table, and after a collect the reachable table, are
\* strictly increasing by address, hence free of duplicates, no longer than
\* their capacity, and table_find_object finds exactly their elements,
\* whatever their length, 0 and 1 included
C38_TablesSorted ==
    gc_pc = "idle" =>
       \A k \in 1..3 :
          (tables[k].st = "live" /\ (k = 3 => GCDone)) =>
             /\ StrictlyIncreasing(tables[k].data)
             /\ NoDuplicates(tables[k].data)
             /\ Len(tables[k].data) <= tables[k].capacity
             /\ FindsExactly(tables[k].data)

\* a collect has returned with every address in the allocation table and two
\* objects in the reachable table
C38_Witness ==
    /\ GCDone
    /\ Len(global_table.data) = MaxAddr
    /\ Len(global_reachable.data) >= 2
    /\ Len(global_directly_reachable.data) >= 1

\* C39: growing or shrinking an object changes only its capacity, its buffer
\* and, on truncation, its length: after a resize_object, a reserve_object,
\* an extend_T or an extend that succeeded the object has the class and the
\* attribute reference it had
C39_ResizeKeepsAttribute ==
    [][(/\ op'.name \in {"resize_object", "reserve_object", "primitive_extend", "extend"}
        /\ err' = PL_ERROR_NONE) =>
          \A x \in held : /\ heap'[x].class = heap[x].class
                          /\ heap'[x].attribute = heap[x].attribute
      ]_vars

\* the name object n has the length and the characters of a name stored for x
Stored(hp, x, n) ==
    \E k \in DOMAIN NameList(hp, x) : hp[NameList(hp, x)[k]].data = hp[n].data

\* C31: once set_attribute has stored a name for x, has_attribute returns 1
\* for every char object with the same characters, and a set_attribute of
\* such a name that succeeds does not make the list of names longer
C31_HasFindsStoredName ==
    [][\A n \in AttrNames, junk \in Junk32 :
          (Stored(heap, 1, n) /\ fault' = "none" /\ err' = PL_ERROR_NONE) =>
             /\ HasAttr(n, junk) => op'.ret = 1
             /\ (\E item \in AttrNames, failing \in {"none", "names", "values"} :
                    SetAttr(n, item, failing, junk))
                  => Len(NameList(heap', 1)) = Len(NameList(heap, 1))
      ]_vars

C33_OverflowOnlyBeyondMaximum ==
    [][(op'.name = "push" /\ fault' = "none") =>
          /\ global_bt'.frame_count = global_bt.frame_count + 1
          /\ global_bt'.frames[global_bt'.frame_count] \in BtFrames
          /\ SubSeq(global_bt'.frames, 1, global_bt.frame_count) = global_bt.frames
          /\ err' = PL_ERROR_STACKOVERFLOW
               <=> global_bt'.frame_count > PL_BT_MAX_ALLOWED_FRAME_NUM
      ]_vars

\* what get returns for (name, frame) on heap hp: the error and the object
Lookup(hp, name, frame) ==
    LET r == get(World(hp, {}, TNull), name, frame) IN <<r.err, r.ret>>

\* C34: after a delete_frame(frame) with frame >= 0 that returned, get finds
\* no name in that frame and finds every name of the other frames with the
\* object it had, and the arrays of frames, names and objects are equally
\* long
C34_DeleteFrameRemovesItsFrame ==
    [][\A frame \in VarFrames :
          (VarDeleteFrame(frame) /\ fault' = "none") =>
             /\ \A name \in VarNames :
                   /\ Lookup(heap', name, frame)[1] = PL_ERROR_VARIABLE_NOT_FOUND
                   /\ \A other \in VarFrames \ {frame} :
                         Lookup(heap', name, other) = Lookup(heap, name, other)
             /\ Len(heap'[global_var.frames].data) = Len(heap'[global_var.strings].data)
             /\ Len(heap'[global_var.strings].data) = Len(heap'[global_var.objects].data)
      ]_vars

\* the objects the bindings of the variable table hold
Bound == Range(heap[global_var.objects].data)

\* the variable table's own objects: the table, its three arrays and the
\* names in use
VarOwn == {global_var.table, global_var.frames, global_var.strings, global_var.objects}
             \cup Range(heap[global_var.strings].data)

\* C35: when a garbage_collect returns without an error, an allocated object
\* that is not part of the variable table itself is still allocated and in
\* the allocation table if and only if a binding holds it or leads to it
\* through lists and attributes
C35_BoundObjectsSurvive ==
    [][(op'.name = "garbage_collect" /\ gc_pc # "idle" /\ gc_pc' = "idle"
        /\ err' = PL_ERROR_NONE /\ fault' = "none") =>
          \A o \in live \ VarOwn :
             /\ o \in live' <=> o \in ClosureFrom(Bound)
             /\ o \in Range(global_table'.data) <=> o \in ClosureFrom(Bound)
      ]_vars

\* a garbage_collect has returned and left a bound list together with the
\* item it holds, after a second binding had been made and deleted
C35_Witness ==
    /\ op.name = "garbage_collect"
    /\ gc_pc = "idle" /\ err = PL_ERROR_NONE /\ fault = "none"
    /\ Len(heap[global_var.objects].data) = 1
    /\ heap[global_var.objects].capacity > 1
    /\ LET o == heap[global_var.objects].data[1] IN
          /\ heap[o].class = PL_CLASS_LIST
          /\ Len(heap[o].data) = 1
          /\ {o, heap[o].data[1]} \subseteq live \cap Range(global_table.data)

====
